---- MODULE Spec2Model ----
(***************************************************************************)
(* Explain Anything: the streaming channel between the content script      *)
(* (src/src/content/content.js), the background service worker             *)
(* (src/src/background/service-worker.js) and the two provider adapters    *)
(* (src/src/providers/openrouter.js, src/unnamed/part_001 = gemini.js).    *)
(*                                                                         *)
(* Text is a sequence of one-character strings.  A provider response body  *)
(* is abstracted to the sequence of complete frames the adapter's parser   *)
(* extracts from it (an SSE line for OpenRouter, a top-level JSON object   *)
(* for Gemini); one reader.read() delivers one frame.                      *)
(***************************************************************************)
EXTENDS Integers, Sequences, FiniteSets, TLC

\* ------------------------------------------------------------------ bounds
MaxPorts == 2
MaxFrames == 2

Ports == 1..MaxPorts

\* content.js:33  let activeRequestPort = null
NoPort == 0

\* ------------------------------------------------------------ program data
\* content.js:36-41
TRANSLATE_TABS == <<"translation", "idioms", "similar", "learning">>

TabIds == {TRANSLATE_TABS[i] : i \in 1..Len(TRANSLATE_TABS)}

\* tabId as passed around by content.js: a tab id or null
NoTab == "null"

\* service-worker.js:26-41
PROVIDERS == {"openrouter", "gemini"}

\* service-worker.js:26  PROVIDERS is an object literal: a lookup by a name
\* that is no key of it finds the property Object.prototype gives every
\* object, if there is one of that name
InheritedKeys == {"constructor"}

\* the provider ids the settings record may hold: the keys of PROVIDERS, an
\* id that names no property (src/unnamed/part_002 is a third adapter that
\* PROVIDERS does not register) and an id that names an inherited one
ProviderIds == PROVIDERS \cup {"claude"} \cup InheritedKeys

\* service-worker.js:239  PROVIDERS[settings.provider]
ProviderLookup(id) ==
  IF id \in PROVIDERS THEN "adapter"
  ELSE IF id \in InheritedKeys THEN "inherited"
  ELSE "undefined"

\* service-worker.js:242
UnknownProviderError(id) == "Unknown provider: " \o id

\* service-worker.js:270  provider.send(...) on a value that has no send:
\* the TypeError's message, posted by the catch (285-287)
NotAFunctionError == "provider.send is not a function"

ApiKeys == {"", "sk"}

\* service-worker.js:10-24
DEFAULT_SETTINGS ==
  [provider |-> "openrouter", model |-> "anthropic/claude-sonnet-4",
   language |-> "English", systemPrompt |-> "You are a helpful assistant",
   openrouterApiKey |-> "", geminiApiKey |-> ""]

\* service-worker.js:43
TRANSLATOR_SYSTEM_PROMPT == "You are a friendly translator and language coach"

\* the settings records chrome.storage may hand to getSettings
Settings ==
  [provider : ProviderIds,
   model : {DEFAULT_SETTINGS.model, "gemini-2.0-flash"},
   language : {DEFAULT_SETTINGS.language, "German"},
   systemPrompt : {DEFAULT_SETTINGS.systemPrompt, "Explain briefly"},
   openrouterApiKey : ApiKeys, geminiApiKey : ApiKeys]

\* content.js:1426-1436  what the options page sends with SAVE_SETTINGS:
\* all six fields of the form
OptionsForms ==
  {[DEFAULT_SETTINGS EXCEPT !.openrouterApiKey = "sk"],
   [provider |-> "gemini", model |-> "gemini-2.0-flash",
    language |-> "German", systemPrompt |-> "Explain briefly",
    openrouterApiKey |-> "", geminiApiKey |-> "sk"]}

\* fetchModels calls that may await their fetch at the same time
MaxCalls == 2

\* network calls to one vendor's model endpoint
MaxFetches == 3

CallIds == 1..MaxCalls

NoCall == [pc |-> "none", adapter |-> "none"]

\* openrouter.js:17 / part_001:17  let cachedModels = null
Null == [kind |-> "null", models |-> <<>>]

\* an array of model descriptors
ModelList(models) == [kind |-> "list", models |-> models]

\* no fetchModels call has returned yet
NoResult == [kind |-> "none", models |-> <<>>]

\* openrouter.js:10-14 / part_001:10-14
FALLBACK_MODELS(a) ==
  ModelList(
    IF a = "openrouter"
    THEN <<[id |-> "anthropic/claude-sonnet-4", isFree |-> FALSE],
           [id |-> "openai/gpt-4o-mini", isFree |-> FALSE],
           [id |-> "google/gemini-2.0-flash-exp:free", isFree |-> TRUE]>>
    ELSE <<[id |-> "gemini-2.0-flash", isFree |-> TRUE],
           [id |-> "gemini-1.5-flash", isFree |-> TRUE],
           [id |-> "gemini-1.5-pro", isFree |-> TRUE]>>)

\* an entry of the vendor's list: its id (OpenRouter) or its name behind
\* "models/" (Gemini), the place of its display name in the collation
\* order, its prompt price, and whether it supports generateContent
VendorEntry(id, rank, price, generate) ==
  [id |-> id, rank |-> rank, price |-> price, generate |-> generate]

\* the arrays a vendor's model endpoint may answer with
ModelPayloads ==
  {<<>>,
   <<VendorEntry("b", 2, 1, TRUE), VendorEntry("a", 1, 0, FALSE)>>,
   <<VendorEntry("", 3, 0, TRUE), VendorEntry("c", 1, 2, TRUE),
     VendorEntry("a", 2, 0, TRUE)>>}

\* how the fetch of a model list may end: fetch rejects, a non-OK status,
\* a body without a model array, a body that makes response.json() or the
\* transformation throw, a model array
ModelFetchOutcomes ==
  {[kind |-> k, data |-> <<>>] : k \in {"reject", "status", "noarray", "throws"}}
  \cup {[kind |-> "payload", data |-> d] : d \in ModelPayloads}

\* openrouter.js:352 .filter(model => model.id) /
\* part_001:243-246 .filter(... methods.includes('generateContent'))
KeptEntry(a, e) == IF a = "openrouter" THEN e.id # "" ELSE e.generate

\* openrouter.js:353-369 / part_001:247-258 .map(...)
ModelOf(a, e) ==
  IF a = "openrouter" THEN [id |-> e.id, isFree |-> e.price = 0]
  ELSE [id |-> e.id, isFree |-> TRUE]

\* openrouter.js:371-376 free first, then by prompt price /
\* part_001:259 by display name
SortsBefore(a, e1, e2) ==
  IF a = "openrouter" THEN e1.price < e2.price ELSE e1.rank < e2.rank

\* Array.prototype.sort is stable: e goes behind the entries it does not
\* sort before
RECURSIVE InsertSorted(_, _, _)
InsertSorted(a, e, sorted) ==
  IF sorted = <<>> THEN <<e>>
  ELSE IF SortsBefore(a, e, Head(sorted)) THEN <<e>> \o sorted
  ELSE <<Head(sorted)>> \o InsertSorted(a, e, Tail(sorted))

RECURSIVE SortEntries(_, _)
SortEntries(a, entries) ==
  IF entries = <<>> THEN <<>>
  ELSE InsertSorted(a, entries[Len(entries)],
                    SortEntries(a, SubSeq(entries, 1, Len(entries) - 1)))

\* openrouter.js:351-376 / part_001:242-259  filter, map, sort
TransformModels(a, data) ==
  LET kept == SelectSeq(data, LAMBDA e : KeptEntry(a, e))
      sorted == SortEntries(a, kept)
  IN ModelList([i \in 1..Len(sorted) |-> ModelOf(a, sorted[i])])

\* part_001:225-227  if (!apiKey) return FALLBACK_MODELS;
\* fetchOpenRouterModels only leaves the Authorization header out
\* (openrouter.js:326-328)
SkipsFetch(a, apiKey) == a = "gemini" /\ apiKey = ""

\* variant: a fetch that failed is answered with no list at all
fetchModelsResult_NoList(a, outcome) ==
  IF outcome.kind = "payload" THEN TransformModels(a, outcome.data)
  ELSE Null

\* openrouter.js:344-347, 349-351, 378-381 / part_001:231-240, 261-266
\* what fetchModels returns once its fetch has settled
fetchModelsResult(a, outcome) ==
  IF outcome.kind = "payload" THEN TransformModels(a, outcome.data)
  ELSE FALLBACK_MODELS(a)

\* chrome.storage.sync before anything was saved
EmptyStorage == [k \in {} |-> ""]

\* service-worker.js:49-52  chrome.storage.sync.get(DEFAULT_SETTINGS) spread
\* over DEFAULT_SETTINGS: a key that was never stored has its default
getSettings(stored) ==
  [k \in DOMAIN DEFAULT_SETTINGS |->
     IF k \in DOMAIN stored THEN stored[k] ELSE DEFAULT_SETTINGS[k]]

\* service-worker.js:316  chrome.storage.sync.set(newSettings) writes the
\* keys of newSettings and keeps the others
StorageSet(stored, newSettings) ==
  [k \in DOMAIN stored \cup DOMAIN newSettings |->
     IF k \in DOMAIN newSettings THEN newSettings[k] ELSE stored[k]]

\* the lengths of the trimmed selection the user may make
SelectionLengths == {1, 2}

\* the tabs the user may click
ClickTabs == {"translation", "idioms"}

\* the provider streams one response text, a letter per text fragment
\* (delta.content / parts[0].text): the n-th text fragment of a stream
ResponseText == <<"A", "B", "C", "D", "E", "F">>

Fragment(n) == <<ResponseText[n]>>

NoText == <<>>

\* ------------------------------------------------------------ pure helpers
RECURSIVE Concat(_)
Concat(ss) == IF ss = <<>> THEN <<>> ELSE Head(ss) \o Concat(Tail(ss))

\* content.js:381-383
getTranslateTab(tabId) ==
  IF tabId \in TabIds THEN tabId ELSE TRANSLATE_TABS[1]

\* content.js:385-400
getLoadingText(type, tabId) ==
  IF type = "translate"
  THEN CASE getTranslateTab(tabId) = "idioms" -> "Getting idioms & nuance..."
         [] getTranslateTab(tabId) = "similar" -> "Finding similar phrases..."
         [] getTranslateTab(tabId) = "learning" -> "Building study notes..."
         [] OTHER -> "Getting translation..."
  ELSE "Getting explanation..."

\* HTML is a sequence of characters and tags, a tag or an entity being one
\* element.
\* the backtick character
Backtick == "backtick"

\* content.js:838-842  textContent read back as innerHTML
escapeHtml(text) ==
  [i \in 1..Len(text) |->
     CASE text[i] = "&" -> "&amp;"
       [] text[i] = "<" -> "&lt;"
       [] text[i] = ">" -> "&gt;"
       [] OTHER -> text[i]]

\* the first place from i on where s has the character d, Len(s) + 1 if
\* it has none
RECURSIVE NextAt(_, _, _)
NextAt(s, d, i) ==
  IF i > Len(s) \/ s[i] = d THEN i ELSE NextAt(s, d, i + 1)

\* s has the character d n times from place i on
RunAt(s, d, n, i) ==
  i + n - 1 <= Len(s) /\ \A t \in 0..(n - 1) : s[i + t] = d

\* content.js:705, 708, 711  html.replace(/D([^d]+)D/g, open + '$1' + close)
\* from place i on, D being the character d n times: the leftmost match is
\* replaced and the scan goes on behind it
RECURSIVE replaceSpans(_, _, _, _, _, _)
replaceSpans(s, d, n, open, close, i) ==
  IF i > Len(s) THEN <<>>
  ELSE LET k == NextAt(s, d, i + n) IN
       IF RunAt(s, d, n, i) /\ k > i + n /\ RunAt(s, d, n, k)
       THEN <<open>> \o SubSeq(s, i + n, k - 1) \o <<close>>
            \o replaceSpans(s, d, n, open, close, k + n)
       ELSE <<s[i]>> \o replaceSpans(s, d, n, open, close, i + 1)

\* content.js:705
inlineCode(html) == replaceSpans(html, Backtick, 1, "<code>", "</code>", 1)

\* content.js:708
bold(html) == replaceSpans(html, "*", 2, "<strong>", "</strong>", 1)

\* content.js:711
italic(html) == replaceSpans(html, "*", 1, "<em>", "</em>", 1)

\* content.js:778-783  the paragraph pass on a text of one paragraph, and
\* the removal of a paragraph of white space
paragraphs(html) ==
  IF \A i \in 1..Len(html) : html[i] = " "
  THEN <<>>
  ELSE <<"<p>">> \o html \o <<"</p>">>

\* variant: the italic pass runs before the bold pass
parseMarkdown_ItalicFirst(text) ==
  IF text = NoText THEN NoText
  ELSE paragraphs(bold(italic(inlineCode(escapeHtml(text)))))

\* content.js:694-798, on text of one line made of letters, spaces, *,
\* backticks and &, <, >: the passes for code blocks, headers, quotes, lists, links,
\* rules and tables need a newline, #, -, a digit, [ or | and leave such a
\* text alone; the empty text renders to ''.
parseMarkdown(text) ==
  IF text = NoText THEN NoText
  ELSE paragraphs(italic(bold(inlineCode(escapeHtml(text)))))

\* content.js:890-902
applyTextDirection(html) == html

\* ----------------------------------------------------------- text direction
\* longest text given to detectTextDirection
MaxTextLen == 5

\* the characters of a text: a Latin letter, a letter of a right-to-left
\* script, a digit of the Latin and one of the Arabic script, a blank
LatinChars == {"a"}

\* an Arabic-Indic digit, U+0660 to U+0669, or U+06F0 to U+06F9
ArabicDigit == "arabic3"

\* the digits of a text
Digits == {"1", ArabicDigit}

\* content.js:848  the characters rtlPattern matches; its range
\* U+0591 to U+07FF holds the letters and the digits of the Arabic script
RTLChars == {"alef", ArabicDigit}

\* content.js:861  the characters text.split(...) splits on
Separators == {" "}

RECURSIVE SeqsUpTo(_, _)
SeqsUpTo(S, n) ==
  IF n = 0 THEN {<<>>}
  ELSE LET shorter == SeqsUpTo(S, n - 1)
       IN shorter \cup {Append(t, c) : t \in shorter, c \in S}

Texts ==
  SeqsUpTo(LatinChars \cup RTLChars \cup Separators \cup Digits, MaxTextLen)

\* content.js:861  text.split(/[...]+/).filter(w => w.length > 0); word is
\* the word being collected
RECURSIVE SplitWords(_, _)
SplitWords(text, word) ==
  IF text = <<>> THEN (IF word = <<>> THEN <<>> ELSE <<word>>)
  ELSE IF Head(text) \in Separators
  THEN (IF word = <<>> THEN <<>> ELSE <<word>>) \o SplitWords(Tail(text), <<>>)
  ELSE SplitWords(Tail(text), Append(word, Head(text)))

\* content.js:847-851
isRTLWord(word) == \E i \in 1..Len(word) : word[i] \in RTLChars

\* variant: half of the words being right-to-left is enough
IsMajority_Half(rtlWordCount, totalDirectionalWords) ==
  2 * rtlWordCount >= totalDirectionalWords

\* content.js:884  (rtlWordCount / totalDirectionalWords) > 0.5; the
\* quotient of two small counts is 0.5 exactly when they tie
IsMajority(rtlWordCount, totalDirectionalWords) ==
  2 * rtlWordCount > totalDirectionalWords

\* content.js:857-885
detectTextDirection(text) ==
  IF text = <<>> THEN "ltr"
  ELSE LET words == SplitWords(text, <<>>)
           rtlWordCount ==
             Cardinality({i \in 1..Len(words) : isRTLWord(words[i])})
           ltrWordCount ==
             Cardinality({i \in 1..Len(words) :
                            /\ ~isRTLWord(words[i])
                            /\ \E j \in 1..Len(words[i]) :
                                 words[i][j] \in LatinChars})
           totalDirectionalWords == rtlWordCount + ltrWordCount
       IN IF Len(words) = 0 THEN "ltr"
          ELSE IF totalDirectionalWords = 0 THEN "ltr"
          ELSE IF IsMajority(rtlWordCount, totalDirectionalWords) THEN "rtl"
          ELSE "ltr"

\* ---------------------------------------------------------- error classifier
\* Strings the classifier takes apart are sequences of characters.
\* parts an error text is made of, at most
MaxParts == 4

\* content.js:549, 560, 576, 605-615  the causes the classifier names
Cause ==
  [unknown |->
     <<"U", "n", "k", "n", "o", "w", "n", " ", "e", "r", "r", "o", "r">>,
   error |-> <<"E", "r", "r", "o", "r">>,
   apiKey |->
     <<"A", "P", "I", " ", "K", "e", "y", " ", "E", "r", "r", "o", "r">>,
   network |->
     <<"N", "e", "t", "w", "o", "r", "k", " ", "E", "r", "r", "o", "r">>,
   rateLimit |-> <<"R", "a", "t", "e", " ", "L", "i", "m", "i", "t">>,
   timeout |-> <<"T", "i", "m", "e", "o", "u", "t">>,
   invalid |->
     <<"I", "n", "v", "a", "l", "i", "d", " ", "R", "e", "q", "u", "e", "s",
     "t">>]

\* content.js:606-614  the keywords looked for in the lowered text
Keyword ==
  [apiKey |-> <<"a", "p", "i", " ", "k", "e", "y">>,
   network |-> <<"n", "e", "t", "w", "o", "r", "k">>,
   connection |-> <<"c", "o", "n", "n", "e", "c", "t", "i", "o", "n">>,
   rateLimit |-> <<"r", "a", "t", "e", " ", "l", "i", "m", "i", "t">>,
   timeout |-> <<"t", "i", "m", "e", "o", "u", "t">>,
   invalid |-> <<"i", "n", "v", "a", "l", "i", "d">>]

\* content.js:549
DefaultErrorMessage ==
  <<"A", "n", " ", "u", "n", "e", "x", "p", "e", "c", "t", "e", "d", " ",
    "e", "r", "r", "o", "r", " ", "o", "c", "c", "u", "r", "r", "e", "d",
    ".">>

\* the error texts made of up to n pieces
RECURSIVE PartsUpTo(_)
PartsUpTo(n) ==
  IF n = 0 THEN {<<>>}
  ELSE LET shorter == PartsUpTo(n - 1)
           ErrorTextParts ==
             {<<"R", "a", "t", "e", " ", "l", "i", "m", "i", "t", " ", "e", "x", "c",
                "e", "e", "d", "e", "d">>,
              <<".">>,
              <<" ">>,
              <<":">>,
              <<"T", "r", "y", " ", "l", "a", "t", "e", "r", ".">>,
              <<"T", "r", "y", " ", "a", "g", "a", "i", "n", " ", "l", "a", "t", "e",
                "r">>,
              <<"A", "P", "I", " ", "k", "e", "y">>,
              <<"N", "e", "t", "w", "o", "r", "k">>,
              <<"c", "o", "n", "n", "e", "c", "t", "i", "o", "n">>,
              <<"t", "i", "m", "e", "o", "u", "t">>,
              <<"I", "n", "v", "a", "l", "i", "d">>}
       IN shorter \cup {t \o part : t \in shorter, part \in ErrorTextParts}

\* a field of a structured error: absent, a value that is no string, or a
\* string
NoField == [t |-> "absent", s |-> <<>>]

StringField(s) == [t |-> "string", s |-> s]

FieldValues ==
  {NoField, [t |-> "number", s |-> <<>>], StringField(<<>>), StringField(<<" ", "E", "4", " ">>),
   StringField(<<"b", "o", "o", "m">>)}

\* what parseError may be given: nothing (undefined, null, ''), a text, an
\* object; circular: JSON.stringify throws on the object
ErrorInputs ==
  {[kind |-> "absent", text |-> <<>>, cause |-> NoField, code |-> NoField,
    message |-> NoField, error |-> NoField, circular |-> FALSE]}
  \cup {[kind |-> "text", text |-> t, cause |-> NoField, code |-> NoField,
         message |-> NoField, error |-> NoField, circular |-> FALSE] :
          t \in PartsUpTo(MaxParts) \ {<<>>}}
  \cup {[kind |-> "object", text |-> <<>>, cause |-> c, code |-> k,
         message |-> m, error |-> e, circular |-> x] :
          c \in FieldValues, k \in FieldValues \ {StringField(<<>>)},
          m \in FieldValues, e \in FieldValues \ {StringField(<<>>)},
          x \in BOOLEAN}

\* the characters \\s matches, of those a text has here
Whitespace == {" "}

RECURSIVE TrimLeft(_)
TrimLeft(t) ==
  IF t # <<>> /\ Head(t) \in Whitespace THEN TrimLeft(Tail(t)) ELSE t

RECURSIVE TrimRight(_)
TrimRight(t) ==
  IF t # <<>> /\ t[Len(t)] \in Whitespace
  THEN TrimRight(SubSeq(t, 1, Len(t) - 1))
  ELSE t

\* String.prototype.trim
trim(t) == TrimRight(TrimLeft(t))

\* String.prototype.toLowerCase
toLowerCase(t) ==
  LET UpperLetters ==
        <<"A", "B", "C", "D", "E", "F", "G", "H", "I", "J", "K", "L", "M",
          "N", "O", "P", "Q", "R", "S", "T", "U", "V", "W", "X", "Y", "Z">>
      LowerLetters ==
        <<"a", "b", "c", "d", "e", "f", "g", "h", "i", "j", "k", "l", "m",
          "n", "o", "p", "q", "r", "s", "t", "u", "v", "w", "x", "y", "z">>
  IN  [i \in 1..Len(t) |->
         IF \E n \in 1..26 : UpperLetters[n] = t[i]
         THEN LowerLetters[CHOOSE n \in 1..26 : UpperLetters[n] = t[i]]
         ELSE t[i]]

\* String.prototype.includes
includes(t, k) ==
  \E i \in 1..(Len(t) - Len(k) + 1) : SubSeq(t, i, i + Len(k) - 1) = k

\* where c is met first in t, 0 if it is not
FirstIndex(t, c) ==
  IF \E i \in 1..Len(t) : t[i] = c
  THEN CHOOSE i \in 1..Len(t) : t[i] = c /\ \A j \in 1..(i - 1) : t[j] # c
  ELSE 0

\* content.js:588  normalizedText.match(/^([^:]+):\s*(.+)$/) on a trimmed
\* text: <<>> for null, else the two groups.  [^:]+ ends before the first
\* colon and \\s* takes the blanks behind it.
colonMatch(t) ==
  LET i == FirstIndex(t, ":")
  IN IF i > 1 /\ i < Len(t)
     THEN <<SubSeq(t, 1, i - 1), TrimLeft(SubSeq(t, i + 1, Len(t)))>>
     ELSE <<>>

\* content.js:597  normalizedText.match(/^([^.]+\.[^.]*?)\s+(.+)$/) on a
\* trimmed text: [^.]+ ends before the first period, the lazy [^.]*? stops
\* before the first blank behind it and cannot pass a second period, \\s+
\* takes the blanks and (.+) the rest
periodMatch(t) ==
  LET i == FirstIndex(t, ".")
      blanks == {j \in (i + 1)..Len(t) :
                   /\ t[j] \in Whitespace
                   /\ \A k \in (i + 1)..(j - 1) :
                        t[k] \notin Whitespace /\ t[k] # "."}
  IN IF i > 1 /\ blanks # {}
     THEN LET j == CHOOSE j \in blanks : TRUE
          IN <<SubSeq(t, 1, j - 1), TrimLeft(SubSeq(t, j + 1, Len(t)))>>
     ELSE <<>>

\* content.js:598  periodMatch[2].length > 10
MinRemainder == 10

\* variant: a remainder of MinRemainder characters is enough
LongRemainder_Inclusive(rest) == Len(rest) >= MinRemainder

LongRemainder(rest) == Len(rest) > MinRemainder

\* variant: 'rate limit' is looked for first
inferCause_RateLimitFirst(t) ==
  LET low == toLowerCase(t)
  IN IF includes(low, Keyword.rateLimit) THEN Cause.rateLimit
     ELSE IF includes(low, Keyword.apiKey) THEN Cause.apiKey
     ELSE IF includes(low, Keyword.network) \/ includes(low, Keyword.connection)
     THEN Cause.network
     ELSE IF includes(low, Keyword.timeout) THEN Cause.timeout
     ELSE IF includes(low, Keyword.invalid) THEN Cause.invalid
     ELSE Cause.error

\* content.js:605-616
inferCause(t) ==
  LET low == toLowerCase(t)
  IN IF includes(low, Keyword.apiKey) THEN Cause.apiKey
     ELSE IF includes(low, Keyword.network) \/ includes(low, Keyword.connection)
     THEN Cause.network
     ELSE IF includes(low, Keyword.rateLimit) THEN Cause.rateLimit
     ELSE IF includes(low, Keyword.timeout) THEN Cause.timeout
     ELSE IF includes(low, Keyword.invalid) THEN Cause.invalid
     ELSE Cause.error

defaultError == [cause |-> Cause.unknown, message |-> DefaultErrorMessage]

\* content.js:567-571  JSON.stringify(errorText): some text in braces, ''
\* from the catch when it throws
Serialized(obj) == IF obj.circular THEN <<>> ELSE <<"{", "}">>

\* content.js:555-580  the structured branch
parseErrorObject(obj) ==
  LET cause == IF obj.cause.t = "string" THEN trim(obj.cause.s)
               ELSE IF obj.code.t = "string" THEN trim(obj.code.s)
               ELSE Cause.error
      message == IF obj.message.t = "string" THEN trim(obj.message.s)
                 ELSE IF obj.error.t = "string" THEN trim(obj.error.s)
                 ELSE Serialized(obj)
  IN [cause |-> IF cause = <<>> THEN Cause.error ELSE cause,
      message |-> IF message = <<>> THEN DefaultErrorMessage ELSE message]

\* content.js:582-622  the free-text branch
parseErrorText(text) ==
  LET normalizedText == trim(text)
      colon == colonMatch(normalizedText)
      period == periodMatch(normalizedText)
  IN IF normalizedText = <<>> THEN defaultError
     ELSE IF colon # <<>>
     THEN [cause |-> trim(colon[1]), message |-> trim(colon[2])]
     ELSE IF period # <<>> /\ LongRemainder(period[2])
     THEN [cause |-> trim(period[1]), message |-> trim(period[2])]
     ELSE [cause |-> inferCause(normalizedText), message |-> normalizedText]

\* content.js:548-623
parseError(errorText) ==
  IF errorText.kind = "absent" \/ (errorText.kind = "text" /\ errorText.text = <<>>)
  THEN defaultError
  ELSE IF errorText.kind = "object" THEN parseErrorObject(errorText)
  ELSE parseErrorText(errorText.text)

\* ----------------------------------------------------------- prompt templates
\* A user message is the sequence of its pieces: the fixed lines of a
\* template and the values put into them.

\* a mode that is none of the four tabs
UnknownMode == "grammar"

\* the requests whose user message is built: type, payload and the language
\* of the settings; an empty string is a field that is missing or empty
\* (service-worker.js:236); payload.mode is a tab, no such field, null or
\* another string
StreamRequests ==
  [type : {"EXPLAIN_TEXT_STREAM", "TRANSLATE_TEXT_STREAM"},
   mode : TabIds \cup {"absent", NoTab, UnknownMode},
   text : {"hello"},
   contextBefore : {"", "before"},
   pageTitle : {"", "title"},
   pageUrl : {"", "url"},
   language : {DEFAULT_SETTINGS.language, "German"}]

\* service-worker.js:59-81
buildUserMessage(payload, language) ==
  (IF payload.pageTitle # "" THEN <<"Page:", payload.pageTitle>> ELSE <<>>)
  \o (IF payload.contextBefore # ""
      THEN <<"Preceding text:", payload.contextBefore>> ELSE <<>>)
  \o <<"**Selected text to explain:**", payload.text,
       "Respond ONLY in", language, "Do not switch languages.">>

\* service-worker.js:92-102
contextBlock(payload) ==
  LET contextLines ==
        (IF payload.pageTitle # "" THEN <<"Page:", payload.pageTitle>> ELSE <<>>)
        \o (IF payload.pageUrl # "" THEN <<"URL:", payload.pageUrl>> ELSE <<>>)
        \o (IF payload.contextBefore # ""
            THEN <<"Preceding text:", payload.contextBefore>> ELSE <<>>)
  IN  IF contextLines # <<>>
      THEN <<"Context to stay accurate:">> \o contextLines
      ELSE <<>>

\* service-worker.js:89-143; mode = 'translation' in the destructuring (90)
\* stands in for a missing field only, not for null
buildTranslateUserMessage(payload, language) ==
  LET mode == IF payload.mode = "absent" THEN "translation" ELSE payload.mode
  IN
  CASE mode = "idioms" ->
         <<"You are coaching a learner to sound natural in", language>>
         \o contextBlock(payload)
         \o <<"Source text:", payload.text,
              "Share 3-5 idiomatic or culturally natural ways to express this idea in",
              language,
              "For each, include a short tone tag and one brief example.",
              "Keep everything in", language, "concise, and easy to study.">>
    [] mode = "similar" ->
         <<"You are helping a learner find interchangeable phrases in", language>>
         \o contextBlock(payload)
         \o <<"Source text:", payload.text,
              "List 4-6 similar phrases or synonyms in", language,
              "For each item, add a one-line note about nuance, plus a tiny example sentence.",
              "Keep the focus on practical language learning and avoid English.">>
    [] mode = "learning" ->
         <<"Give a quick mini-lesson in", language>>
         \o contextBlock(payload)
         \o <<"Source text:", payload.text,
              "Provide:",
              "- Key vocabulary with short meanings.",
              "- 1-2 grammar or structure cues.",
              "- One micro practice prompt the learner can answer.",
              "Be concise, encouraging, and stay entirely in", language>>
    [] OTHER ->
         <<"Translate the following text into", language>>
         \o contextBlock(payload)
         \o <<"Source text:", payload.text,
              "Respond with ONLY the translated text in", language,
              "No labels, no quotes, no Markdown, no explanations, and no extra sentences.">>

\* variant: the template is chosen by the mode the payload carries
userMessage_ByMode(type, payload, language) ==
  IF payload.mode \in TabIds
  THEN buildTranslateUserMessage(payload, language)
  ELSE buildUserMessage(payload, language)

\* service-worker.js:246-249
userMessage(type, payload, language) ==
  LET isTranslate == type = "TRANSLATE_TEXT_STREAM" IN
  IF isTranslate
  THEN buildTranslateUserMessage(payload, language)
  ELSE buildUserMessage(payload, language)

\* ----------------------------------------------------------- markdown input
MaxPieces == 3

\* the texts parseMarkdown is applied to: up to MaxPieces pieces of
\* markdown text in a row
MarkdownTexts ==
  LET MarkdownPieces ==
  {<<"*", "*", "b", "o", "l", "d", "*", "*">>,
   <<" ", "a", "n", "d", " ">>,
   <<Backtick, "c", "o", "d", "e", Backtick>>,
   <<"*">>, <<Backtick>>, <<"b">>, <<"<">>}
  IN  {Concat(ps) : ps \in SeqsUpTo(MarkdownPieces, MaxPieces)}

\* ---------------------------------------------------- the response container
\* What .ea-response-container holds: kind, the loading text, the rendered
\* response markup, the error shown, the request a retry click restarts, and
\* swaps: how many times a new .ea-response element has been put in place
\* of the container's content since that content was last written whole.
NoRetry == <<>>

NoContainer ==
  [kind |-> "none", text |-> "", html |-> NoText, retry |-> NoRetry,
   cause |-> <<>>, message |-> <<>>, swaps |-> 0]

\* content.js:409-416
renderLoading(text) ==
  [kind |-> "loading", text |-> text, html |-> NoText, retry |-> NoRetry,
   cause |-> <<>>, message |-> <<>>, swaps |-> 0]

\* content.js:359-371
ReloadMessage ==
  [kind |-> "reload", text |-> "Extension Updated", html |-> NoText,
   retry |-> NoRetry, cause |-> <<>>, message |-> <<>>, swaps |-> 0]

\* content.js:472  container.innerHTML = `<div class="ea-response"></div>`
ResponseView(ctr) ==
  [kind |-> "response", text |-> "", html |-> NoText, retry |-> NoRetry,
   cause |-> <<>>, message |-> <<>>, swaps |-> ctr.swaps + 1]

\* ------------------------------------------------------------------- state
VARIABLES
  miniPopup,          \* content.js:28   the mini popup exists
  modalOverlay,       \* content.js:29   "none" (null) or the open modal's type
  currentSelection,   \* content.js:30   length of the stored selection text, 0 = null
  activeRequestPort,  \* content.js:33
  activeTab,          \* content.js:34
  container,          \* content.js:221  .ea-response-container of the open modal
  contextValid,       \* content.js:348  chrome.runtime.id is still defined
  ports,              \* content.js:455-458  per port: connection + listener closure
  toWorker,           \* request messages the surface posted on each port
  toSurface,          \* events posted on each port, not yet dispatched
  disc,               \* the port's onDisconnect notification: none/pending/fired
  handler,            \* service-worker.js:233  the listener's run for each port
  storage,            \* chrome.storage.sync: the settings that were saved
  cachedModels,       \* openrouter.js:17 / part_001:17  per adapter
  fetchCount,         \* network calls made to each vendor's model endpoint
  calls,              \* the fetchModels calls awaiting their fetch
  lastResult,         \* what the latest fetchModels call of each adapter returned
  input,              \* the argument of a function applied on its own
  output              \* <<>>, or <<what the function returned for input>>

vars == <<miniPopup, modalOverlay, currentSelection, activeRequestPort,
          activeTab, container, contextValid, ports, toWorker, toSurface,
          disc, handler, storage, cachedModels, fetchCount, calls,
          lastResult, input, output>>

modelVars == <<cachedModels, fetchCount, calls, lastResult>>

callVars == <<input, output>>

surfaceVars == <<miniPopup, modalOverlay, currentSelection, activeRequestPort,
                 activeTab, container, contextValid, ports>>

\* content.js:61  selectedText.length < 2
MinSelLen == 2

\* content.js:455-458  a port never connected / the closure of a fresh port
UnusedPort ==
  [conn |-> "unused", type |-> "explain", tabId |-> NoTab,
   fullContent |-> NoText, isFirstChunk |-> TRUE]

NewPortClosure(type, tabId) ==
  [conn |-> "open", type |-> type, tabId |-> tabId,
   fullContent |-> NoText, isFirstChunk |-> TRUE]

\* service-worker.js:233-292  a listener that has received no message yet
\* no requestParams built (yet)
NoRequest == [model |-> "", systemPrompt |-> "", language |-> "", apiKey |-> ""]

IdleHandler ==
  [pc |-> "idle", provider |-> "none", fullContent |-> NoText,
   chunks |-> <<>>, hasStreamedContent |-> FALSE,
   result |-> "none", error |-> "", midStreamFailure |-> FALSE,
   carried |-> 0, unbalanced |-> FALSE, request |-> NoRequest,
   isTranslate |-> FALSE]

PortsUsed == Cardinality({p \in Ports : ports[p].conn # "unused"})

\* variant: the request is posted on the port that is already active
ConnectPort_Reuse ==
  IF activeRequestPort # NoPort THEN activeRequestPort ELSE PortsUsed + 1

\* content.js:455  chrome.runtime.connect returns a port object never seen
\* before
ConnectPort == PortsUsed + 1

\* content.js:348-354
isExtensionContextValid == contextValid

\* A port the surface has disconnected.  It is never the active port again
\* (connect returns a new object each time), so line 461 returns before its
\* listener reads type, tabId, fullContent or isFirstChunk: the closure is
\* unreachable and the model keeps no value for it.
ClosedPort == [UnusedPort EXCEPT !.conn = "closed"]

\* variant: the active port is forgotten without being disconnected
cleanupActivePort_Keep(ps, act) == ps

\* content.js:425-434  cleanupActivePort: the ports after the call (the
\* active port, if any, is disconnected); activeRequestPort becomes null
cleanupActivePort(ps, act) ==
  IF act # NoPort THEN [ps EXCEPT ![act] = ClosedPort] ELSE ps

\* variant: the mode is put into the payload of every request
RequestMessage_AlwaysMode(type, tabId) ==
  [type |-> IF type = "translate" THEN "TRANSLATE_TEXT_STREAM"
                                  ELSE "EXPLAIN_TEXT_STREAM",
   text |-> currentSelection,
   mode |-> IF tabId # NoTab THEN tabId ELSE "translation"]

\* content.js:451, 507-521  the message posted on the new port
RequestMessage(type, tabId) ==
  [type |-> IF type = "translate" THEN "TRANSLATE_TEXT_STREAM"
                                  ELSE "EXPLAIN_TEXT_STREAM",
   text |-> currentSelection,
   mode |-> IF type = "translate"
            THEN (IF tabId # NoTab THEN tabId ELSE "translation")
            ELSE "absent"]

\* content.js:439-534  requestAIResponse(type, tabId), entered with ports ps
\* and active port act.  chrome.runtime.connect and the first postMessage
\* throw only in an invalidated context, which line 440 has excluded.
requestAIResponse(type, tabId, ps, act) ==
  IF ~isExtensionContextValid
  THEN /\ container' = ReloadMessage
       /\ activeRequestPort' = act
       /\ ports' = ps
       /\ UNCHANGED toWorker
  ELSE /\ ConnectPort \in Ports
       /\ activeRequestPort' = ConnectPort
       /\ ports' = [cleanupActivePort(ps, act) EXCEPT
                      ![ConnectPort] = NewPortClosure(type, tabId)]
       /\ toWorker' = [toWorker EXCEPT
                      ![ConnectPort] = Append(@, RequestMessage(type, tabId))]
       /\ container' = renderLoading(getLoadingText(type, tabId))

Installed ==
  /\ miniPopup = FALSE
  /\ modalOverlay = "none"
  /\ currentSelection = 0
  /\ activeRequestPort = NoPort
  /\ activeTab = "translation"
  /\ container = NoContainer
  /\ contextValid = TRUE
  /\ ports = [p \in Ports |-> UnusedPort]
  /\ toWorker = [p \in Ports |-> <<>>]
  /\ toSurface = [p \in Ports |-> <<>>]
  /\ disc = [p \in Ports |-> "none"]
  /\ handler = [p \in Ports |-> IdleHandler]
  /\ storage = EmptyStorage
  /\ cachedModels = [a \in PROVIDERS |-> Null]
  /\ fetchCount = [a \in PROVIDERS |-> 0]
  /\ calls = [c \in CallIds |-> NoCall]
  /\ lastResult = [a \in PROVIDERS |-> NoResult]

Init == Installed /\ input = <<>> /\ output = <<>>

\* --------------------------------------------------- surface: user actions
\* content.js:907-923 handleSelection with getSelectionContext (56-106) and
\* showMiniPopup (111-145): len is the length of the trimmed selected text
handleSelection(len) ==
  /\ len \in SelectionLengths
  /\ IF len >= MinSelLen
     THEN /\ currentSelection' = len
          /\ miniPopup' = TRUE
     ELSE /\ miniPopup' = FALSE
          /\ UNCHANGED currentSelection
  /\ UNCHANGED <<modalOverlay, activeRequestPort, activeTab, container,
                 contextValid, ports, toWorker, toSurface, disc, handler>>
  /\ UNCHANGED <<storage, modelVars, callVars>>

\* variant: the modal opens without a mini popup, hence without a selection
\* having been stored
showResponseModal_NoPopup(type) ==
  /\ type \in {"explain", "translate"}
  /\ modalOverlay' = type
  /\ activeTab' = IF type = "translate" THEN "translation" ELSE NoTab
  /\ miniPopup' = FALSE
  /\ requestAIResponse(type, activeTab',
                       cleanupActivePort(ports, activeRequestPort), NoPort)
  /\ UNCHANGED <<currentSelection, contextValid, toSurface, disc, handler>>
  /\ UNCHANGED <<storage, modelVars, callVars>>

\* content.js:160-259  showResponseModal(type), from a mini popup button
\* (content.js:125-139)
showResponseModal(type) ==
  /\ miniPopup
  /\ type \in {"explain", "translate"}
  /\ modalOverlay' = type
  /\ activeTab' = IF type = "translate" THEN "translation" ELSE NoTab
  /\ miniPopup' = FALSE
  /\ requestAIResponse(type, activeTab',
                       cleanupActivePort(ports, activeRequestPort), NoPort)
  /\ UNCHANGED <<currentSelection, contextValid, toSurface, disc, handler>>
  /\ UNCHANGED <<storage, modelVars, callVars>>

\* content.js:264-273  hideResponseModal (close button, overlay click, Escape)
hideResponseModal ==
  /\ modalOverlay # "none"
  /\ modalOverlay' = "none"
  /\ container' = NoContainer
  /\ ports' = cleanupActivePort(ports, activeRequestPort)
  /\ activeRequestPort' = NoPort
  /\ UNCHANGED <<miniPopup, currentSelection, activeTab, contextValid,
                 toWorker, toSurface, disc, handler>>
  /\ UNCHANGED <<storage, modelVars, callVars>>

\* variant: a click on the active tab is not ignored and requests again
TabClick_NoGuard(tabId) ==
  /\ modalOverlay = "translate"
  /\ tabId \in ClickTabs
  /\ activeTab' = tabId
  /\ requestAIResponse(modalOverlay, tabId, ports, activeRequestPort)
  /\ UNCHANGED <<miniPopup, modalOverlay, currentSelection, contextValid,
                 toSurface, disc, handler>>
  /\ UNCHANGED <<storage, modelVars, callVars>>

\* content.js:237-247  click on a tab button of the translate modal
TabClick(tabId) ==
  /\ modalOverlay = "translate"
  /\ tabId \in ClickTabs
  /\ IF tabId = activeTab
     THEN UNCHANGED <<activeTab, container, activeRequestPort, ports, toWorker>>
     ELSE /\ activeTab' = tabId
          /\ requestAIResponse(modalOverlay, tabId, ports, activeRequestPort)
  /\ UNCHANGED <<miniPopup, modalOverlay, currentSelection, contextValid,
                 toSurface, disc, handler>>
  /\ UNCHANGED <<storage, modelVars, callVars>>

\* content.js:653-659  click on the retry button of an error presentation
RetryClick ==
  /\ container.kind = "error"
  /\ container.retry # NoRetry
  /\ requestAIResponse(container.retry[1], container.retry[2], ports,
                       activeRequestPort)
  /\ UNCHANGED <<miniPopup, modalOverlay, currentSelection, activeTab,
                 contextValid, toSurface, disc, handler>>
  /\ UNCHANGED <<storage, modelVars, callVars>>

\* ------------------------------------------------ surface: port listeners
\* service-worker.js:272,284 / 242,276,287  the three shapes of a StreamEvent
ChunkEvent(content) == [type |-> "CHUNK", content |-> content, error |-> ""]

DoneEvent == [type |-> "DONE", content |-> NoText, error |-> ""]

ErrorEvent(error) == [type |-> "none", content |-> NoText, error |-> error]

\* variant: the listener has no guard
StaleGuard_Off(p) == FALSE

\* content.js:461  if (port !== activeRequestPort || !modalOverlay) return;
StaleGuard(p) == p # activeRequestPort \/ modalOverlay = "none"

\* variant: the response element is put in place on every chunk
FirstChunkSwap_Always(isFirstChunk, ctr) == ResponseView(ctr)

\* content.js:471-474  the container after the first-chunk swap
FirstChunkSwap(isFirstChunk, ctr) ==
  IF isFirstChunk THEN ResponseView(ctr) ELSE ctr

\* variant: the buffer is overwritten by the chunk
AccumulateChunk_Overwrite(fullContent, content) == content

\* content.js:476  fullContent += msg.content
AccumulateChunk(fullContent, content) == fullContent \o content

\* content.js:477-485  responseEl = container.querySelector('.ea-response');
\* if it exists its markup becomes the render of the whole buffer
RenderInto(ctr, fullContent) ==
  IF ctr.kind = "response"
  THEN [ctr EXCEPT !.html = applyTextDirection(parseMarkdown(fullContent))]
  ELSE ctr

\* the error texts of the requests, character by character
ErrorChars(errorText) ==
  CASE errorText = "Rate limit exceeded" ->
         <<"R", "a", "t", "e", " ", "l", "i", "m", "i", "t", " ", "e", "x",
           "c", "e", "e", "d", "e", "d">>
    [] errorText = "Network error" ->
         <<"N", "e", "t", "w", "o", "r", "k", " ", "e", "r", "r", "o", "r">>
    [] errorText = "OpenRouter API key is not configured" ->
         <<"O", "p", "e", "n", "R", "o", "u", "t", "e", "r", " ", "A", "P",
           "I", " ", "k", "e", "y", " ", "i", "s", " ", "n", "o", "t", " ",
           "c", "o", "n", "f", "i", "g", "u", "r", "e", "d">>
    [] errorText = "Gemini API key is not configured" ->
         <<"G", "e", "m", "i", "n", "i", " ", "A", "P", "I", " ", "k", "e",
           "y", " ", "i", "s", " ", "n", "o", "t", " ", "c", "o", "n", "f",
           "i", "g", "u", "r", "e", "d">>
    [] errorText = "Unknown provider: claude" ->
         <<"U", "n", "k", "n", "o", "w", "n", " ", "p", "r", "o", "v", "i",
           "d", "e", "r", ":", " ", "c", "l", "a", "u", "d", "e">>
    [] errorText = "provider.send is not a function" ->
         <<"p", "r", "o", "v", "i", "d", "e", "r", ".", "s", "e", "n", "d",
           " ", "i", "s", " ", "n", "o", "t", " ", "a", " ", "f", "u", "n",
           "c", "t", "i", "o", "n">>
    [] errorText = "Connection lost" ->
         <<"C", "o", "n", "n", "e", "c", "t", "i", "o", "n", " ", "l", "o",
           "s", "t">>

\* a text as parseError takes it
TextInput(text) ==
  [kind |-> "text", text |-> text, cause |-> NoField, code |-> NoField,
   message |-> NoField, error |-> NoField, circular |-> FALSE]

\* variant: the error text is shown as it came, under a fixed cause
renderError_Raw(errorText) ==
  [cause |-> Cause.error, message |-> ErrorChars(errorText)]

\* content.js:628-639  renderError: the cause and the message shown are
\* those parseError finds in the error text
renderError(errorText) == parseError(TextInput(ErrorChars(errorText)))

\* variant: the error presentation is added to what the container shows
showErrorState_Merge(ctr, errorText, type, tabId) ==
  [kind |-> "error", text |-> errorText, html |-> ctr.html,
   cause |-> renderError(errorText).cause,
   message |-> renderError(errorText).message,
   retry |-> <<type, tabId>>, swaps |-> ctr.swaps]

\* content.js:644-660  showErrorState: the container's content is
\* overwritten by renderError(errorText, ...); the retry button restarts
\* (type, tabId).  Without an open modal there is no container (645-646).
showErrorState(ctr, errorText, type, tabId) ==
  IF modalOverlay = "none" THEN ctr
  ELSE [kind |-> "error", text |-> errorText, html |-> NoText,
        cause |-> renderError(errorText).cause,
        message |-> renderError(errorText).message,
        retry |-> <<type, tabId>>, swaps |-> 0]

\* content.js:460-505  port.onMessage listener of port p, run on the next
\* event of the port.  An invalidated extension context dispatches no message.
portOnMessage(p) ==
  /\ contextValid
  /\ ports[p].conn # "unused"
  /\ toSurface[p] # <<>>
  /\ toSurface' = [toSurface EXCEPT ![p] = Tail(@)]
  /\ LET msg == Head(toSurface[p])
         cl == ports[p]
     IN IF StaleGuard(p)
        THEN UNCHANGED <<container, ports, activeRequestPort>>
        ELSE IF msg.error # ""
        THEN /\ container' = showErrorState(container, msg.error, cl.type,
                                             cl.tabId)
             /\ ports' = cleanupActivePort(ports, activeRequestPort)
             /\ activeRequestPort' = NoPort
        ELSE IF msg.type = "CHUNK"
        THEN /\ container' =
                  RenderInto(FirstChunkSwap(cl.isFirstChunk, container),
                             AccumulateChunk(cl.fullContent, msg.content))
             /\ ports' = [ports EXCEPT
                  ![p].isFirstChunk = FALSE,
                  ![p].fullContent = AccumulateChunk(cl.fullContent, msg.content)]
             /\ UNCHANGED activeRequestPort
        ELSE \* msg.type = "DONE": highlightCode finds no <pre><code> block
             /\ ports' = cleanupActivePort(ports, activeRequestPort)
             /\ activeRequestPort' = NoPort
             /\ UNCHANGED container
  /\ UNCHANGED <<miniPopup, modalOverlay, currentSelection, activeTab,
                 contextValid, toWorker, disc, handler>>
  /\ UNCHANGED <<storage, modelVars, callVars>>

\* variant: a disconnect with lastError always shows the error
portOnDisconnect_AlwaysError(p) ==
  /\ disc[p] \in {"pending", "pendingErr"}
  /\ toSurface[p] = <<>> \/ ~contextValid
  /\ disc' = [disc EXCEPT ![p] = "fired"]
  /\ IF p # activeRequestPort
     THEN UNCHANGED <<container, activeRequestPort>>
     ELSE /\ activeRequestPort' = NoPort
          /\ container' =
               IF disc[p] = "pendingErr"
               THEN showErrorState(container, "Connection lost",
                                   ports[p].type, ports[p].tabId)
               ELSE container
  /\ UNCHANGED <<miniPopup, modalOverlay, currentSelection, activeTab,
                 contextValid, ports, toWorker, toSurface, handler>>
  /\ UNCHANGED <<storage, modelVars, callVars>>

\* content.js:523-534  port.onDisconnect listener of port p.  Chrome delivers
\* the messages posted before the disconnect first.
portOnDisconnect(p) ==
  /\ disc[p] \in {"pending", "pendingErr"}
  /\ toSurface[p] = <<>> \/ ~contextValid
  /\ disc' = [disc EXCEPT ![p] = "fired"]
  /\ IF p # activeRequestPort
     THEN UNCHANGED <<container, activeRequestPort>>
     ELSE /\ activeRequestPort' = NoPort
          /\ container' =
               IF disc[p] = "pendingErr" /\ ports[p].isFirstChunk
               THEN showErrorState(container, "Connection lost",
                                   ports[p].type, ports[p].tabId)
               ELSE container
  /\ UNCHANGED <<miniPopup, modalOverlay, currentSelection, activeTab,
                 contextValid, ports, toWorker, toSurface, handler>>
  /\ UNCHANGED <<storage, modelVars, callVars>>

\* ------------------------------------------------------------ orchestrator
\* port.postMessage succeeds on a connected port and throws on a
\* disconnected one
CanPost(p) == ports[p].conn = "open" /\ disc[p] = "none"

\* what getSettings may resolve to (service-worker.js:49-52)
SettingsSnapshots ==
  {s \in Settings : /\ s.model = DEFAULT_SETTINGS.model
                    /\ s.language = DEFAULT_SETTINGS.language
                    /\ s.systemPrompt = DEFAULT_SETTINGS.systemPrompt}

\* openrouter.js:30-32 / part_001:30-34
MissingKeyError(provider) ==
  IF provider = "openrouter" THEN "OpenRouter API key is not configured"
  ELSE "Gemini API key is not configured"

\* the message of an error the vendor reports (a non-OK status at
\* openrouter.js:76-99 / part_001:74-87, an error object in the stream at
\* openrouter.js:137) and of an exception thrown by fetch, reader.read or
\* chrome.storage (openrouter.js:233-255 / part_001:175-177,
\* service-worker.js:287)
VendorError == "Rate limit exceeded"

ThrownError == "Network error"

\* variant: the key of the first provider is passed to every adapter
requestApiKey_FirstKey(settings) == settings.openrouterApiKey

\* service-worker.js:261-265, 171-176, 212-217
requestApiKey(settings) ==
  IF settings.provider = "openrouter" THEN settings.openrouterApiKey
  ELSE IF settings.provider = "gemini" THEN settings.geminiApiKey
  ELSE ""

\* variant: the model of a request still running is used again
BuildRequest_Sticky(isTranslate, settings) ==
  LET running == {q \in Ports : handler[q].request.model # ""}
  IN [model |-> IF running = {} THEN settings.model
                ELSE handler[CHOOSE q \in running : TRUE].request.model,
      systemPrompt |-> IF isTranslate THEN TRANSLATOR_SYSTEM_PROMPT
                       ELSE settings.systemPrompt,
      language |-> settings.language,
      apiKey |-> IF settings.provider = "openrouter"
                 THEN settings.openrouterApiKey
                 ELSE settings.geminiApiKey]

\* variant: the system prompt of the settings goes into every request
BuildRequest_UserPrompt(isTranslate, settings) ==
  [model |-> settings.model, systemPrompt |-> settings.systemPrompt,
   language |-> settings.language, apiKey |-> requestApiKey(settings)]

\* service-worker.js:246-265  requestParams and the language put into the
\* user message
BuildRequest(isTranslate, settings) ==
  [model |-> settings.model,
   systemPrompt |-> IF isTranslate THEN TRANSLATOR_SYSTEM_PROMPT
                    ELSE settings.systemPrompt,
   language |-> settings.language, apiKey |-> requestApiKey(settings)]

\* service-worker.js:160-176, 203-217, 246-265  the requestParams each of
\* the three handlers builds: the one-shot handlers for TRANSLATE_TEXT and
\* EXPLAIN_TEXT and the stream handler, which looks at the message type
requestParams(handlerName, type, settings) ==
  CASE handlerName = "handleTranslateRequest" -> BuildRequest(TRUE, settings)
    [] handlerName = "handleExplainRequest" -> BuildRequest(FALSE, settings)
    [] handlerName = "handleStreamRequest" ->
         BuildRequest(type = "TRANSLATE_TEXT_STREAM", settings)

\* the calls in which requestParams are built: a handler, the type of its
\* message, the settings it has read; the keys of the two providers differ
RequestInputs ==
  [handlerName : {"handleTranslateRequest", "handleExplainRequest",
                  "handleStreamRequest"},
   type : {"EXPLAIN_TEXT_STREAM", "TRANSLATE_TEXT_STREAM"},
   settings : [provider : PROVIDERS \cup InheritedKeys,
               model : {DEFAULT_SETTINGS.model},
               language : {DEFAULT_SETTINGS.language},
               systemPrompt : {DEFAULT_SETTINGS.systemPrompt, "Explain briefly"},
               openrouterApiKey : {"", "sk-or-1"},
               geminiApiKey : {"", "AIza2"}]]

\* the frames a response body may carry next: a parsable frame with the next
\* text fragment (at most MaxFrames of them in a body), a parsable frame
\* with no text, a parsable frame with an error member, a frame JSON.parse
\* rejects
FramesAfter(h) ==
  (IF h.carried < MaxFrames
   THEN {[kind |-> "data", content |-> Fragment(h.carried + 1)]}
   ELSE {})
  \cup {[kind |-> "data", content |-> NoText],
        [kind |-> "error", content |-> NoText],
        [kind |-> "malformed", content |-> NoText],
        [kind |-> "unbalanced", content |-> NoText]}

NoFrame == [kind |-> "none", content |-> NoText]

\* openrouter.js:149 / part_001:145  if (content)
ChunkAccepted(content) == content # NoText

\* openrouter.js:136-139  if (data.error) return { error: errorMsg };
\* sendGeminiRequest (part_001:142-151) reads candidates[0] only
StreamErrorDetected(provider, frame) ==
  provider = "openrouter" /\ frame.kind = "error"

\* openrouter.js:173-191  the unterminated last line is parsed after the
\* loop; sendGeminiRequest (part_001:159-161) drops what is left in buffer
TailParsed(provider, tail) == provider = "openrouter" /\ tail.kind = "data"

\* the body has carried one more well-formed text fragment
Carry(h, frame) ==
  [h EXCEPT !.carried =
     IF frame.kind = "data" /\ frame.content # NoText THEN @ + 1 ELSE @]

\* part_001:111-157  every read rescans the whole buffer from braceCount 0,
\* and the buffer is cut only behind an extracted object: a fragment whose
\* braces or quotes do not balance stays at the head of the buffer, and no
\* later object brings braceCount back to 0 at its own closing brace.
\* openrouter.js:118-169 parses line by line, each line on its own
ScannerStuck(h) == h.provider = "gemini" /\ h.unbalanced

\* variant: the adapter's buffer is overwritten by the fragment
AdapterAccumulate_Overwrite(fullContent, content) == content

\* openrouter.js:150 / part_001:146  fullContent += content
AdapterAccumulate(fullContent, content) == fullContent \o content

\* service-worker.js:270-273 with openrouter.js:150-151, 183-184 /
\* part_001:146-147: the adapter appends the fragment and passes it to
\* onChunk, which posts a CHUNK; a throw of postMessage is swallowed by the
\* catch around the frame's parse (openrouter.js:164-167, 186-188 /
\* part_001:149-151).  The handler's locals after the call:
\* variant: the callback looks the settings up again
AfterOnChunk_Reread(h, content) ==
  [h EXCEPT !.fullContent = AdapterAccumulate(h.fullContent, content),
            !.chunks = Append(h.chunks, content),
            !.hasStreamedContent = TRUE,
            !.provider = getSettings(storage).provider,
            !.request = BuildRequest(h.isTranslate, getSettings(storage))]

AfterOnChunk(h, content) ==
  [h EXCEPT !.fullContent = AdapterAccumulate(h.fullContent, content),
            !.chunks = Append(h.chunks, content),
            !.hasStreamedContent = TRUE]

\* service-worker.js:272  port.postMessage({ type: 'CHUNK', content: chunk })
PostChunk(p, content) ==
  IF CanPost(p)
  THEN [toSurface EXCEPT ![p] = Append(@, ChunkEvent(content))]
  ELSE toSurface

\* openrouter.js:193, 138, 31, 255 / part_001:161, 177  send returns
SendResult(h, result, error) ==
  [h EXCEPT !.pc = "sent", !.result = result, !.error = error,
            !.carried = 0, !.unbalanced = FALSE]

\* variant: the return after the error post (service-worker.js:277) is
\* missing, so DONE follows the error
HandlerEvents_NoReturn(h) ==
  IF h.result = "error" THEN <<ErrorEvent(h.error), DoneEvent>>
  ELSE <<DoneEvent>>

\* variant: the content send returns is always posted as a CHUNK
HandlerEvents_AlwaysChunk(h) ==
  IF h.result = "error" THEN <<ErrorEvent(h.error)>>
  ELSE IF h.fullContent # NoText
  THEN <<ChunkEvent(h.fullContent), DoneEvent>>
  ELSE <<DoneEvent>>

\* service-worker.js:275-284  the events the handler posts after send
HandlerEvents(h) ==
  IF h.result = "error" THEN <<ErrorEvent(h.error)>>
  ELSE IF ~h.hasStreamedContent /\ h.fullContent # NoText
  THEN <<ChunkEvent(h.fullContent), DoneEvent>>
  ELSE <<DoneEvent>>

\* variant: a run that ends with an error starts over
Finish_Retry(p, events) ==
  IF \E i \in 1..Len(events) : events[i].error # ""
  THEN /\ handler' = [handler EXCEPT ![p] =
            [IdleHandler EXCEPT !.pc = "getSettings"]]
       /\ UNCHANGED toSurface
  ELSE IF CanPost(p)
  THEN /\ toSurface' = [toSurface EXCEPT ![p] = @ \o events]
       /\ handler' = [handler EXCEPT ![p] = [IdleHandler EXCEPT !.pc = "returned"]]
  ELSE /\ handler' = [handler EXCEPT ![p] = [IdleHandler EXCEPT !.pc = "rejected"]]
       /\ UNCHANGED toSurface

\* service-worker.js:241-244, 275-292: the handler posts its last events
\* and returns; when postMessage throws, the catch (285-287) posts an
\* error, which throws again and rejects the listener's promise.  The
\* run's locals are gone afterwards.
Finish(p, events) ==
  IF CanPost(p)
  THEN /\ toSurface' = [toSurface EXCEPT ![p] = @ \o events]
       /\ handler' = [handler EXCEPT ![p] = [IdleHandler EXCEPT !.pc = "returned"]]
  ELSE /\ handler' = [handler EXCEPT ![p] = [IdleHandler EXCEPT !.pc = "rejected"]]
       /\ UNCHANGED toSurface

\* service-worker.js:233-236  the listener receives a request message; a
\* second message on the port would start a second run beside the first
OnPortMessage(p) ==
  /\ toWorker[p] # <<>>
  /\ disc[p] = "none"
  /\ toWorker' = [toWorker EXCEPT ![p] = Tail(@)]
  /\ handler' = [handler EXCEPT ![p] =
       IF Head(toWorker[p]).type \notin
            {"EXPLAIN_TEXT_STREAM", "TRANSLATE_TEXT_STREAM"}
       THEN @
       ELSE IF @.pc = "idle"
       THEN [@ EXCEPT !.pc = "getSettings",
                      !.isTranslate =
                         Head(toWorker[p]).type = "TRANSLATE_TEXT_STREAM"]
       ELSE [@ EXCEPT !.pc = "overlap"]]
  /\ UNCHANGED <<surfaceVars, toSurface, disc>>
  /\ UNCHANGED <<storage, modelVars, callVars>>

\* service-worker.js:238-270 and the adapter's key check (openrouter.js:30-32,
\* part_001:30-34): getSettings resolves (or rejects), the provider is looked
\* up, the request is built and send is entered
SettingsResolve(p, ok, settings) ==
  /\ handler[p].pc = "getSettings"
  /\ settings \in Settings
  /\ IF ~ok
     THEN Finish(p, <<ErrorEvent(ThrownError)>>)
     ELSE IF ProviderLookup(settings.provider) = "undefined"
     THEN Finish(p, <<ErrorEvent(UnknownProviderError(settings.provider))>>)
     ELSE IF ProviderLookup(settings.provider) = "inherited"
     THEN Finish(p, <<ErrorEvent(NotAFunctionError)>>)
     ELSE /\ handler' = [handler EXCEPT ![p] =
               LET h == [@ EXCEPT !.provider = settings.provider,
                                  !.request =
                                     BuildRequest(handler[p].isTranslate,
                                                  settings)]
               IN IF h.request.apiKey = ""
                  THEN SendResult(h, "error", MissingKeyError(settings.provider))
                  ELSE [h EXCEPT !.pc = "fetch"]]
          /\ UNCHANGED toSurface
  /\ UNCHANGED <<surfaceVars, toWorker, disc>>
  /\ UNCHANGED <<storage, modelVars, callVars>>

\* openrouter.js:53-100, 233-256 / part_001:63-88, 175-178  fetch resolves
\* with an OK status, resolves with a non-OK status, or rejects
FetchResolve(p, outcome) ==
  /\ handler[p].pc = "fetch"
  /\ outcome \in {"ok", "status", "reject"}
  /\ handler' = [handler EXCEPT ![p] =
       IF outcome = "ok" THEN [@ EXCEPT !.pc = "read"]
       ELSE IF outcome = "status" THEN SendResult(@, "error", VendorError)
       ELSE SendResult(@, "error", ThrownError)]
  /\ UNCHANGED <<surfaceVars, toWorker, toSurface, disc>>
  /\ UNCHANGED <<storage, modelVars, callVars>>

\* openrouter.js:108-170 / part_001:96-159  reader.read() resolves with a
\* value holding one frame
AdapterRead(p, frame) ==
  /\ handler[p].pc = "read"
  /\ frame \in FramesAfter(handler[p])
  /\ LET h == Carry(handler[p], frame)
     IN IF frame.kind = "error"
        THEN LET hf == [h EXCEPT !.midStreamFailure = @ \/ h.hasStreamedContent]
             IN /\ handler' = [handler EXCEPT ![p] =
                     IF StreamErrorDetected(h.provider, frame)
                     THEN SendResult(hf, "error", VendorError)
                     ELSE hf]
                /\ UNCHANGED toSurface
        ELSE IF frame.kind = "unbalanced"
        THEN /\ handler' = [handler EXCEPT ![p] =
                  [h EXCEPT !.unbalanced = @ \/ h.provider = "gemini"]]
             /\ UNCHANGED toSurface
        ELSE IF /\ frame.kind = "data" /\ ChunkAccepted(frame.content)
                /\ ~ScannerStuck(h)
        THEN /\ handler' = [handler EXCEPT ![p] = AfterOnChunk(h, frame.content)]
             /\ toSurface' = PostChunk(p, frame.content)
        ELSE /\ handler' = [handler EXCEPT ![p] = h]
             /\ UNCHANGED toSurface
  /\ UNCHANGED <<surfaceVars, toWorker, disc>>
  /\ UNCHANGED <<storage, modelVars, callVars>>

\* openrouter.js:109, 233-256 / part_001:97, 175-178  reader.read() rejects:
\* the outer catch returns { error }
AdapterReadThrows(p) ==
  /\ handler[p].pc = "read"
  /\ handler' = [handler EXCEPT ![p] =
       SendResult([@ EXCEPT !.midStreamFailure = @ \/ handler[p].hasStreamedContent],
                  "error", ThrownError)]
  /\ UNCHANGED <<surfaceVars, toWorker, toSurface, disc>>
  /\ UNCHANGED <<storage, modelVars, callVars>>

\* openrouter.js:110, 172-193 / part_001:98, 161  reader.read() resolves with
\* done; tail is the unterminated last line left in buffer, if any
AdapterReadDone(p, tail) ==
  /\ handler[p].pc = "read"
  /\ tail \in FramesAfter(handler[p]) \cup {NoFrame}
  /\ LET h0 == handler[p]
         h1 == [h0 EXCEPT !.midStreamFailure =
                  @ \/ (tail.kind = "error" /\ h0.hasStreamedContent)]
         take == TailParsed(h0.provider, tail) /\ ChunkAccepted(tail.content)
     IN /\ handler' = [handler EXCEPT ![p] =
             SendResult(IF take THEN AfterOnChunk(Carry(h1, tail), tail.content)
                        ELSE h1,
                        "content", "")]
        /\ toSurface' = IF take THEN PostChunk(p, tail.content) ELSE toSurface
  /\ UNCHANGED <<surfaceVars, toWorker, disc>>
  /\ UNCHANGED <<storage, modelVars, callVars>>

\* service-worker.js:270, 275-292  the handler resumes after await
\* provider.send(...), posts the terminal event and returns
SendReturns(p) ==
  /\ handler[p].pc = "sent"
  /\ Finish(p, HandlerEvents(handler[p]))
  /\ UNCHANGED <<surfaceVars, toWorker, disc>>
  /\ UNCHANGED <<storage, modelVars, callVars>>

\* The service worker is stopped (idle kill, crash): every run of the
\* handler ends where it is and every connected port is disconnected at the
\* surface, with or without chrome.runtime.lastError.
LiveHandler(p) == handler[p].pc \in {"getSettings", "fetch", "read", "sent"}

StoppedHandlers ==
  [p \in Ports |->
     IF LiveHandler(p) THEN [IdleHandler EXCEPT !.pc = "dead"] ELSE handler[p]]

DisconnectedByWorker(lastError) ==
  [p \in Ports |->
     IF CanPost(p) THEN (IF lastError THEN "pendingErr" ELSE "pending")
     ELSE disc[p]]

WorkerDies(lastError) ==
  /\ \E p \in Ports : CanPost(p) \/ LiveHandler(p)
  /\ handler' = StoppedHandlers
  /\ disc' = DisconnectedByWorker(lastError)
  /\ UNCHANGED <<surfaceVars, toWorker, toSurface>>
  /\ UNCHANGED <<storage, modelVars, callVars>>

\* The extension is reloaded or updated under the page: chrome.runtime.id
\* goes away for this content script (content.js:348-354), the worker it
\* talked to is gone with every run of the handler, and what was in flight
\* on the ports is never dispatched.
ContextInvalidated ==
  /\ contextValid
  /\ contextValid' = FALSE
  /\ handler' = [p \in Ports |->
       IF handler[p].pc = "idle" THEN handler[p]
       ELSE [IdleHandler EXCEPT !.pc = "dead"]]
  /\ disc' = DisconnectedByWorker(FALSE)
  /\ toWorker' = [p \in Ports |-> <<>>]
  /\ toSurface' = [p \in Ports |-> <<>>]
  /\ UNCHANGED <<miniPopup, modalOverlay, currentSelection, activeRequestPort,
                 activeTab, container, ports>>
  /\ UNCHANGED <<storage, modelVars, callVars>>

\* service-worker.js:314-321, 411  handleSaveSettings: the options page
\* saved its form
SaveSettings(newSettings) ==
  /\ newSettings \in OptionsForms
  /\ storage' = StorageSet(storage, newSettings)
  /\ UNCHANGED <<surfaceVars, toWorker, toSurface, disc, handler, modelVars,
                 callVars>>

\* a function of the page or of the worker is applied to input
Returns(value) ==
  /\ output = <<>>
  /\ output' = <<value>>
  /\ UNCHANGED <<input, surfaceVars, toWorker, toSurface, disc, handler,
                 storage, modelVars>>

\* -------------------------------------------------- adapters: model listing
\* openrouter.js:315-318 / part_001:220-228  fetchModels(apiKey,
\* forceRefresh) up to its first await; handleGetModels
\* (service-worker.js:365) calls it without forceRefresh, handleRefreshModels
\* (387) with true.  An array, even an empty one, counts as cached.
fetchModelsCall(c, a, apiKey, forceRefresh) ==
  /\ calls[c] = NoCall
  /\ fetchCount[a] < MaxFetches
  /\ IF cachedModels[a] # Null /\ ~forceRefresh
     THEN /\ lastResult' = [lastResult EXCEPT ![a] = cachedModels[a]]
          /\ UNCHANGED <<calls, fetchCount>>
     ELSE IF SkipsFetch(a, apiKey)
     THEN /\ lastResult' = [lastResult EXCEPT ![a] = FALLBACK_MODELS(a)]
          /\ UNCHANGED <<calls, fetchCount>>
     ELSE /\ calls' = [calls EXCEPT ![c] = [pc |-> "fetch", adapter |-> a]]
          /\ fetchCount' = [fetchCount EXCEPT ![a] = @ + 1]
          /\ UNCHANGED lastResult
  /\ UNCHANGED <<cachedModels, storage, surfaceVars, toWorker, toSurface,
                 disc, handler>>

\* a call of fetchModels by itself
fetchModels(c, a, apiKey, forceRefresh) ==
  /\ fetchModelsCall(c, a, apiKey, forceRefresh)
  /\ UNCHANGED callVars

\* variant: a fetch that fails empties the cache
fetchModelsSettles_ClearOnFail(c, outcome) ==
  /\ calls[c] # NoCall
  /\ outcome \in ModelFetchOutcomes
  /\ LET a == calls[c].adapter
     IN /\ cachedModels' = [cachedModels EXCEPT ![a] =
             IF outcome.kind = "payload" THEN TransformModels(a, outcome.data)
             ELSE Null]
        /\ lastResult' = [lastResult EXCEPT ![a] = fetchModelsResult(a, outcome)]
  /\ calls' = [calls EXCEPT ![c] = NoCall]
  /\ UNCHANGED <<fetchCount, storage, surfaceVars, toWorker, toSurface,
                 disc, handler>>

\* openrouter.js:339-382 / part_001:229-267  the fetch of call c settles and
\* the body is read; the call returns
fetchModelsSettles(c, outcome) ==
  /\ calls[c] # NoCall
  /\ outcome \in ModelFetchOutcomes
  /\ LET a == calls[c].adapter
     IN /\ cachedModels' = [cachedModels EXCEPT ![a] =
             IF outcome.kind = "payload" THEN TransformModels(a, outcome.data)
             ELSE @]
        /\ lastResult' = [lastResult EXCEPT ![a] = fetchModelsResult(a, outcome)]
  /\ calls' = [calls EXCEPT ![c] = NoCall]
  /\ UNCHANGED <<fetchCount, storage, surfaceVars, toWorker, toSurface,
                 disc, handler>>

\* the return of a call of fetchModels by itself
fetchModelsResolve(c, outcome) ==
  /\ fetchModelsSettles(c, outcome)
  /\ UNCHANGED callVars

\* ------------------------------------------------ worker: model list requests
\* What the sender of GET_MODELS or REFRESH_MODELS gets back: the object
\* passed to sendResponse, or nothing when the handler threw before it
\* came to sendResponse.
Response(provider, sent, error, models) ==
  [provider |-> provider, sent |-> sent, error |-> error, models |-> models]

\* service-worker.js:356-370, 378-392  the handler up to the first await of
\* fetchModels.  PROVIDERS[provider] of an inherited key is a function of
\* Object.prototype: it passes line 359, its fetchModels is undefined, the
\* call throws into the catch, and there providerConfig.getModels() throws
\* again, so sendResponse is never called.  The catch is not reached for
\* the two adapters, whose fetchModels never rejects.
handleModelsRequest(c, provider, apiKey, forceRefresh) ==
  /\ provider \in ProviderIds
  /\ calls[c] = NoCall
  /\ IF provider \in PROVIDERS
     THEN /\ fetchModelsCall(c, provider, apiKey, forceRefresh)
          /\ output' = IF calls'[c] = NoCall
                       THEN <<Response(provider, TRUE, "", lastResult'[provider])>>
                       ELSE output
     ELSE /\ output' = IF provider \in InheritedKeys
                       THEN <<Response(provider, FALSE, "", Null)>>
                       ELSE <<Response(provider, TRUE, "Unknown provider", Null)>>
          /\ UNCHANGED <<modelVars, storage, surfaceVars, toWorker, toSurface,
                         disc, handler>>
  /\ UNCHANGED input

\* service-worker.js:356-370
handleGetModels(c, provider, apiKey) ==
  handleModelsRequest(c, provider, apiKey, FALSE)

\* service-worker.js:378-392
handleRefreshModels(c, provider, apiKey) ==
  handleModelsRequest(c, provider, apiKey, TRUE)

\* service-worker.js:365-366, 387-388  fetchModels has returned:
\* sendResponse({ models })
handleModelsResolve(c, outcome) ==
  /\ fetchModelsSettles(c, outcome)
  /\ output' = <<Response(calls[c].adapter, TRUE, "",
                         lastResult'[calls[c].adapter])>>
  /\ UNCHANGED input

\* ------------------------------------------------------------ specification
Next ==
  \/ \E len \in SelectionLengths : handleSelection(len)
  \/ \E type \in {"explain", "translate"} : showResponseModal(type)
  \/ hideResponseModal
  \/ \E tabId \in ClickTabs : TabClick(tabId)
  \/ RetryClick
  \/ \E p \in Ports : portOnMessage(p)
  \/ \E p \in Ports : portOnDisconnect(p)
  \/ \E p \in Ports : OnPortMessage(p)
  \/ \E p \in Ports, ok \in BOOLEAN, s \in SettingsSnapshots :
       SettingsResolve(p, ok, s)
  \/ \E p \in Ports, o \in {"ok", "status", "reject"} : FetchResolve(p, o)
  \/ \E p \in Ports : \E f \in FramesAfter(handler[p]) : AdapterRead(p, f)
  \/ \E p \in Ports : AdapterReadThrows(p)
  \/ \E p \in Ports : \E t \in FramesAfter(handler[p]) \cup {NoFrame} :
       AdapterReadDone(p, t)
  \/ \E p \in Ports : SendReturns(p)
  \/ \E e \in BOOLEAN : WorkerDies(e)
  \/ ContextInvalidated

Spec == Init /\ [][Next]_vars

\* The requests of one modal, its retries included, with the settings kept
\* in storage and saved from the options page at any moment.
NextSettings ==
  \/ \E len \in SelectionLengths : handleSelection(len)
  \/ \E type \in {"explain", "translate"} : showResponseModal(type)
  \/ RetryClick
  \/ \E p \in Ports : portOnMessage(p)
  \/ \E p \in Ports : OnPortMessage(p)
  \/ \E p \in Ports, ok \in BOOLEAN :
       SettingsResolve(p, ok, getSettings(storage))
  \/ \E p \in Ports, o \in {"ok", "status", "reject"} : FetchResolve(p, o)
  \/ \E p \in Ports : \E f \in FramesAfter(handler[p]) : AdapterRead(p, f)
  \/ \E p \in Ports : AdapterReadThrows(p)
  \/ \E p \in Ports : \E t \in FramesAfter(handler[p]) \cup {NoFrame} :
       AdapterReadDone(p, t)
  \/ \E p \in Ports : SendReturns(p)
  \/ \E f \in OptionsForms : SaveSettings(f)

SpecSettings == Init /\ [][NextSettings]_vars

\* The model lists of the two adapters, asked for from the options page.
NextModels ==
  \/ \E c \in CallIds, a \in PROVIDERS, k \in ApiKeys, f \in BOOLEAN :
       fetchModels(c, a, k, f)
  \/ \E c \in CallIds, o \in ModelFetchOutcomes : fetchModelsResolve(c, o)

SpecModels == Init /\ [][NextModels]_vars

\* GET_MODELS and REFRESH_MODELS messages of the options page
NextGetModels ==
  \/ \E c \in CallIds, provider \in ProviderIds, k \in ApiKeys :
       handleGetModels(c, provider, k)
  \/ \E c \in CallIds, provider \in ProviderIds, k \in ApiKeys :
       handleRefreshModels(c, provider, k)
  \/ \E c \in CallIds, o \in ModelFetchOutcomes : handleModelsResolve(c, o)

SpecGetModels == Init /\ [][NextGetModels]_vars

\* detectTextDirection applied to every text of at most MaxTextLen characters
InitDirection == Installed /\ input \in Texts /\ output = <<>>

NextDirection == Returns(detectTextDirection(input))

SpecDirection == InitDirection /\ [][NextDirection]_vars

\* parseError applied to every error input
InitParseError == Installed /\ input \in ErrorInputs /\ output = <<>>

NextParseError == Returns(parseError(input))

SpecParseError == InitParseError /\ [][NextParseError]_vars

\* service-worker.js:270-273  what the handler holds when provider.send
\* has returned: { error } or { content }, with or without calls of the
\* callback before; an adapter may return its content without a call
SendResults ==
  {[IdleHandler EXCEPT !.pc = "sent", !.result = r[1], !.error = r[2],
                       !.fullContent = c, !.hasStreamedContent = f] :
     r \in {<<"content", "">>, <<"error", VendorError>>,
            <<"error", ThrownError>>},
     c \in SeqsUpTo({"A", "B"}, MaxFrames + 1),
     f \in BOOLEAN}

\* the events the handler posts for every result of send
InitHandlerEvents == Installed /\ input \in SendResults /\ output = <<>>

NextHandlerEvents == Returns(HandlerEvents(input))

SpecHandlerEvents == InitHandlerEvents /\ [][NextHandlerEvents]_vars

\* the requestParams of every handler for every settings record
InitRequestParams == Installed /\ input \in RequestInputs /\ output = <<>>

NextRequestParams ==
  Returns(requestParams(input.handlerName, input.type, input.settings))

SpecRequestParams == InitRequestParams /\ [][NextRequestParams]_vars

\* parseMarkdown applied to every markdown text
InitMarkdown == Installed /\ input \in MarkdownTexts /\ output = <<>>

NextMarkdown == Returns(parseMarkdown(input))

SpecMarkdown == InitMarkdown /\ [][NextMarkdown]_vars

\* the user message of every stream request
InitUserMessage == Installed /\ input \in StreamRequests /\ output = <<>>

NextUserMessage == Returns(userMessage(input.type, input, input.language))

SpecUserMessage == InitUserMessage /\ [][NextUserMessage]_vars

\* ------------------------------------------------------------- properties
\* a terminal StreamEvent: DONE or an error event
IsTerminal(e) == e.type = "DONE" \/ e.error # ""

\* the events a step posts on port p (a step never posts and dispatches on
\* the same port)
Posted(p) ==
  IF Len(toSurface'[p]) > Len(toSurface[p])
  THEN SubSeq(toSurface'[p], Len(toSurface[p]) + 1, Len(toSurface'[p]))
  ELSE <<>>

Terminals(events) == {i \in 1..Len(events) : IsTerminal(events[i])}

\* the run of the handler for port p is over
Finished(p) == handler[p].pc \in {"returned", "rejected", "dead"}

\* the step in which the run for port p ends by its own code
Finishes(p) == LiveHandler(p) /\ handler'[p].pc \in {"returned", "rejected"}

\* C1 as stated: every handled request ends with exactly one terminal event
\* posted on its port.  (Refuted: when the surface has disconnected the port
\* before the handler finishes, both posts of lines 276/283 and 287 throw
\* and the run ends with no terminal event on the port.)
C1_ExactlyOneTerminal ==
  [][\A p \in Ports :
       Finishes(p) => Cardinality(Terminals(Posted(p))) = 1]_vars

\* C1 amended: on every port the handler posts CHUNK events while it runs,
\* at most one terminal event, as the last event and in the step it returns
\* in, nothing once the run is over, and exactly one terminal event whenever
\* the port is still connected when the run ends.
C1_TerminalOrder ==
  [][\A p \in Ports :
       /\ Posted(p) # <<>> => LiveHandler(p)
       /\ Finished(p) => Finished(p)'
       /\ Terminals(Posted(p)) \subseteq {Len(Posted(p))}
       /\ Terminals(Posted(p)) # {} => handler'[p].pc = "returned"
       /\ (Finishes(p) /\ CanPost(p)) => Terminals(Posted(p)) # {}
       /\ (LiveHandler(p) /\ handler'[p].pc = "returned")
            => Terminals(Posted(p)) # {}]_vars

\* C1 witness: a run has returned having posted two chunks and then DONE
C1_Witness ==
  \E p \in Ports :
    /\ handler[p].pc = "returned"
    /\ toSurface[p] = <<ChunkEvent(Fragment(1)), ChunkEvent(Fragment(2)),
                        DoneEvent>>

\* C2: an event dispatched on a port that is not the active one (superseded
\* by a newer request, or torn down by a close or a handled terminal event)
\* changes neither the response container nor the active port nor any
\* listener's buffer.
C2_StaleEventsIgnored ==
  [][\A p \in Ports :
       (portOnMessage(p) /\ p # activeRequestPort)
         => UNCHANGED <<container, activeRequestPort, ports>>]_vars

\* C2 witness: events of a superseded port are waiting to be dispatched
\* while the newer port is active and its response is being displayed
C2_Witness ==
  \E p \in Ports :
    /\ ports[p].conn = "closed"
    /\ Len(toSurface[p]) >= 2
    /\ activeRequestPort \notin {NoPort, p}
    /\ container.kind = "response"

\* C3: every port other than activeRequestPort is disconnected
C3_OnlyActivePortOpen ==
  \A p \in Ports : p # activeRequestPort => ~CanPost(p)

\* C3 witness: a second port has been opened while the request of the first
\* was still in flight; the first is disconnected
C3_Witness ==
  \E p, q \in Ports :
    /\ p # q
    /\ ports[p].conn = "closed"
    /\ handler[p].pc = "read"
    /\ activeRequestPort = q
    /\ CanPost(q)

\* C4: a request message is only ever posted on a port that was just
\* created, a port carries at most one request message, and no second run
\* of the handler starts on a port.
C4_OneRequestPerPort ==
  /\ [](\A p \in Ports : Len(toWorker[p]) <= 1 /\ handler[p].pc # "overlap")
  /\ [][\A p \in Ports :
          toWorker'[p] # toWorker[p] /\ toWorker'[p] # <<>>
            => /\ ports[p].conn = "unused"
               /\ handler[p].pc = "idle"
               /\ Len(toWorker'[p]) = 1]_vars

\* C4 witness: a retry has opened the second port after the first one's
\* request ended with an error
C4_Witness ==
  /\ handler[1].pc = "returned"
  /\ ports[1].conn = "closed"
  /\ activeRequestPort = 2
  /\ Len(toWorker[2]) = 1
  /\ modalOverlay = "explain"

\* C5: whenever send returns success, the content it returns is the
\* concatenation, in call order, of the fragments it passed to onChunk, and
\* each of these fragments is non-empty (both adapters).
C5_RoundTrip ==
  \A p \in Ports :
    (handler[p].pc = "sent" /\ handler[p].result = "content")
      => /\ handler[p].fullContent = Concat(handler[p].chunks)
         /\ \A i \in 1..Len(handler[p].chunks) : handler[p].chunks[i] # NoText

\* C5 witness: both adapters have returned success after two onChunk calls
C5_Witness ==
  \E p, q \in Ports :
    /\ handler[p].provider = "openrouter" /\ handler[q].provider = "gemini"
    /\ \A r \in {p, q} :
         /\ handler[r].pc = "sent" /\ handler[r].result = "content"
         /\ Len(handler[r].chunks) = MaxFrames

\* the step in which the listener of port p applies a CHUNK event
AppliesChunk(p) ==
  /\ portOnMessage(p)
  /\ p = activeRequestPort /\ modalOverlay # "none"
  /\ Head(toSurface[p]).error = "" /\ Head(toSurface[p]).type = "CHUNK"

\* text is made of the first letters of the provider's response, in order
IsPrefix(text) ==
  Len(text) <= Len(ResponseText) /\ text = SubSeq(ResponseText, 1, Len(text))

\* C6: the chunks of a channel are applied in emission order (the buffer
\* is always the beginning of the text the provider streams), and after
\* each applied CHUNK the buffer is the former buffer followed by the chunk
\* and the container shows the render of the whole buffer.
C6_RenderOfWholeBuffer ==
  /\ [](\A p \in Ports : IsPrefix(ports[p].fullContent))
  /\ [][\A p \in Ports :
          AppliesChunk(p)
            => /\ ports'[p].fullContent =
                    ports[p].fullContent \o Head(toSurface[p]).content
               /\ container'.kind = "response"
               /\ container'.html = parseMarkdown(ports'[p].fullContent)]_vars

\* C6 witness: Chunk("A"), Chunk("B"), Done were applied: the channel is
\* torn down and the container shows the render of "AB"
C6_Witness ==
  /\ container.kind = "response"
  /\ container.html = parseMarkdown(<<"A", "B">>)
  /\ activeRequestPort = NoPort
  /\ modalOverlay # "none"
  /\ \E p \in Ports :
       /\ ports[p].conn = "closed" /\ disc[p] = "none"
       /\ handler[p].pc = "returned" /\ toSurface[p] = <<>>
       /\ \A q \in Ports \ {p} : ports[q].conn = "unused"

\* C7: the loading indicator is replaced by the response element on the
\* first CHUNK applied on a channel and on no later one: a container never
\* sees a second replacement, the first applied CHUNK finds the loading
\* indicator and replaces it, a later one finds the response element and
\* keeps it.
C7_SwapExactlyOnce ==
  /\ [](container.swaps <= 1)
  /\ [][\A p \in Ports :
          AppliesChunk(p)
            => IF ports[p].fullContent = NoText
               THEN /\ container.kind = "loading"
                    /\ container'.kind = "response"
                    /\ container'.swaps = 1
               ELSE /\ container.kind = "response"
                    /\ container'.swaps = container.swaps]_vars

\* C7 witness: the second chunk has been applied on the active channel
C7_Witness ==
  \E p \in Ports :
    /\ p = activeRequestPort
    /\ ports[p].fullContent = <<"A", "B">>
    /\ container.kind = "response" /\ container.swaps = 1

\* the step in which the listener of port p applies an error event
AppliesError(p) ==
  /\ portOnMessage(p)
  /\ p = activeRequestPort /\ modalOverlay # "none"
  /\ Head(toSurface[p]).error # ""

\* C8: an applied error event leaves the container holding the error
\* presentation of that error and nothing of the response streamed so far.
C8_ErrorReplacesContent ==
  [][\A p \in Ports :
       AppliesError(p)
         => /\ container'.kind = "error"
            /\ container'.text = Head(toSurface[p]).error
            /\ container'.html = NoText
            /\ container'.swaps = 0]_vars

\* C8 witness: two chunks have been applied on the active channel and an
\* error event is the next event its listener gets
C8_Witness ==
  \E p \in Ports :
    /\ p = activeRequestPort /\ modalOverlay # "none" /\ contextValid
    /\ ports[p].fullContent = <<"A", "B">>
    /\ container.html = parseMarkdown(<<"A", "B">>)
    /\ toSurface[p] # <<>> /\ Head(toSurface[p]).error # ""

\* C9 as stated: when the provider has failed after a chunk was emitted (an
\* error object in the stream, or a read that throws), the terminal event
\* the handler posts is an error event, never DONE.  (Refuted by the code:
\* sendGeminiRequest never looks for an error object in a streamed frame,
\* and sendOpenRouterRequest does not in the unterminated last line, so
\* send returns success and the handler posts DONE.)
C9_FailureEndsWithError ==
  [][\A p \in Ports :
       (handler[p].pc = "sent" /\ handler[p].midStreamFailure
          /\ Posted(p) # <<>>)
         => Posted(p)[Len(Posted(p))].error # ""]_vars

\* C10 as stated: once the surface has disconnected a port, the adapter
\* reading the provider's stream for that port's request stops: it does not
\* take a frame and go on to the next read.  (Refuted by the code: the
\* handler listens to no disconnect and gives fetch no abort signal; the
\* adapter reads to the end of the stream.)
C10_ReadStopsOnDisconnect ==
  [][\A p \in Ports :
       (ports[p].conn = "closed"
          /\ \E f \in FramesAfter(handler[p]) : AdapterRead(p, f))
         => handler'[p].pc # "read"]_vars

\* C11 as stated: when the active port disconnects with no terminal event
\* received and no CHUNK applied, the loading indicator is replaced by the
\* error presentation.  (Refuted by the code: the listener shows the error
\* only inside `if (chrome.runtime.lastError)`; a disconnect that sets no
\* lastError, as when the worker is stopped, leaves the loading indicator.)
C11_DisconnectShowsError ==
  [][\A p \in Ports :
       (portOnDisconnect(p) /\ p = activeRequestPort
          /\ ports[p].isFirstChunk /\ container.kind = "loading")
         => container'.kind = "error"]_vars

\* C12 as stated: when the provider id of the settings read for a request
\* is no key of PROVIDERS, no adapter send is entered and the event posted
\* is the error 'Unknown provider: <id>'.  (Refuted by the code: the lookup
\* PROVIDERS[id] also finds inherited properties, so for such an id the
\* check `!provider` passes, provider.send(...) throws a TypeError and the
\* catch posts that error's message instead.)
C12_UnknownProviderFailsFast ==
  [][\A p \in Ports : \A s \in SettingsSnapshots :
       (SettingsResolve(p, TRUE, s) /\ s.provider \notin PROVIDERS)
         => /\ handler'[p].pc \in {"returned", "rejected"}
            /\ CanPost(p)
                 => Posted(p) =
                      <<ErrorEvent(UnknownProviderError(s.provider))>>]_vars

\* the step ends with send returning {error} to the run of port p
ReturnsError(p) ==
  handler'[p].pc = "sent" /\ handler'[p].result = "error"

\* C13 as stated: every failing outcome of the network call makes send
\* return {error}: a missing key and a non-OK status before any onChunk
\* call, a rejected fetch, a read that throws, an error object in the body.
\* (Refuted by the code: sendGeminiRequest takes an error object in a
\* streamed body for a frame without text and goes on reading; send then
\* returns {content}.)
C13_FailuresReturnError ==
  [][\A p \in Ports :
       /\ \A s \in SettingsSnapshots :
            (SettingsResolve(p, TRUE, s) /\ s.provider \in PROVIDERS
               /\ requestApiKey(s) = "")
              => ReturnsError(p) /\ handler'[p].chunks = <<>>
       /\ FetchResolve(p, "status")
            => ReturnsError(p) /\ handler'[p].chunks = <<>>
       /\ FetchResolve(p, "reject") => ReturnsError(p)
       /\ AdapterReadThrows(p) => ReturnsError(p)
       /\ AdapterRead(p, [kind |-> "error", content |-> NoText])
            => ReturnsError(p)]_vars

\* C14 as stated: an unparsable fragment in the body is skipped and every
\* well-formed text fragment read before and after it is handed to onChunk,
\* in order, and accumulated into the content send returns.
\* (Refuted by the code: sendGeminiRequest rescans its buffer from the
\* fragment that does not balance on every read, so no later object is
\* ever extracted; send returns {content} without them.)
C14_MalformedFragmentSkipped ==
  [][\A p \in Ports : \A f \in FramesAfter(handler[p]) :
       (AdapterRead(p, f) /\ f.kind = "data" /\ f.content # NoText)
         => /\ handler'[p].chunks = Append(handler[p].chunks, f.content)
            /\ handler'[p].fullContent = Concat(handler'[p].chunks)]_vars

\* the API key of the provider the settings select
KeyOfSelected(s) ==
  IF s.provider = "openrouter" THEN s.openrouterApiKey ELSE s.geminiApiKey

\* C15: a run of the handler is a function of its own request, of the
\* settings read for it and of the provider's answers.  It starts with
\* fresh locals whatever earlier runs left behind, the request it builds
\* is made of the settings it read and of nothing else, and no step
\* touches the locals of another run; so two runs that differ only in
\* what was requested before them behave alike.
C15_StatelessAcrossRequests ==
  [][/\ \A p \in Ports :
          /\ (OnPortMessage(p) /\ handler'[p] # handler[p])
                => handler'[p] =
                     [IdleHandler EXCEPT
                        !.pc = "getSettings",
                        !.isTranslate =
                           Head(toWorker[p]).type = "TRANSLATE_TEXT_STREAM"]
          /\ (/\ SettingsResolve(p, TRUE, getSettings(storage))
              /\ handler'[p].pc \in {"fetch", "sent"})
                => LET s == getSettings(storage)
                   IN /\ handler'[p].provider = s.provider
                      /\ handler'[p].request =
                           [model |-> s.model,
                            systemPrompt |->
                              IF handler[p].isTranslate
                              THEN TRANSLATOR_SYSTEM_PROMPT
                              ELSE s.systemPrompt,
                            language |-> s.language,
                            apiKey |-> KeyOfSelected(s)]
                      /\ handler'[p].pc = "sent" <=> KeyOfSelected(s) = ""
     /\ Cardinality({q \in Ports : handler'[q] # handler[q]}) <= 1]_vars

\* a request was built for gemini while an earlier request, made for
\* another provider with other settings, has failed and not yet returned
C15_Witness ==
  \E p, q \in Ports :
    /\ handler[q].pc = "sent" /\ handler[q].result = "error"
    /\ handler[p].pc = "fetch"
    /\ handler[p].provider # handler[q].provider
    /\ handler[p].request.model # handler[q].request.model

\* the run of port p has read its settings and has not returned yet
InFlight(h) == h.pc \in {"fetch", "read", "sent"}

\* C16: the provider, model, API key, language and system prompt of a
\* request are those of the settings read at its start: no step changes
\* them while the request is in flight, and a SAVE_SETTINGS that completes
\* meanwhile changes storage only.
C16_SettingsSnapshot ==
  [][/\ \A p \in Ports :
          (InFlight(handler[p]) /\ InFlight(handler'[p]))
            => /\ handler'[p].provider = handler[p].provider
               /\ handler'[p].request = handler[p].request
     /\ \A f \in OptionsForms : SaveSettings(f) => handler' = handler]_vars

\* a request that has streamed a fragment runs with settings that differ
\* in every field from those storage holds by now
C16_Witness ==
  \E p \in Ports :
    /\ handler[p].pc = "read" /\ handler[p].chunks # <<>>
    /\ handler[p].provider # getSettings(storage).provider
    /\ handler[p].request.model # getSettings(storage).model
    /\ handler[p].request.language # getSettings(storage).language
    /\ handler[p].request.systemPrompt # getSettings(storage).systemPrompt
    /\ handler[p].request.apiKey = "sk"

\* C17 as stated: a fetchModels call without forceRefresh that follows a
\* call of the same adapter that has returned makes no network call,
\* whatever that call returned.
\* (Refuted by the code: cachedModels is assigned only when a fetch
\* delivered a model array; after a call that returned FALLBACK_MODELS the
\* next call fetches again.)
C17_SecondCallFromCache ==
  [][\A c \in CallIds, a \in PROVIDERS, k \in ApiKeys :
       (fetchModels(c, a, k, FALSE) /\ lastResult[a] # NoResult)
         => fetchCount' = fetchCount]_vars

\* C18 as stated: every fetchModels call with forceRefresh makes a network
\* call, for both adapters and any API key.
\* (Refuted by the code: fetchGeminiModels returns FALLBACK_MODELS before
\* the fetch when the key is empty.)
C18_ForceRefreshFetches ==
  [][\A c \in CallIds, a \in PROVIDERS, k \in ApiKeys :
       fetchModels(c, a, k, TRUE)
         => fetchCount'[a] = fetchCount[a] + 1]_vars

\* C19: a fetchModels call whose fetch is rejected, answered with a non-OK
\* status, answered without a model array or with a body that throws
\* returns FALLBACK_MODELS of its adapter, and every call returns a list.
C19_ListModelsNeverFails ==
  /\ [](\A a \in PROVIDERS : lastResult[a].kind \in {"none", "list"})
  /\ [][\A c \in CallIds, o \in ModelFetchOutcomes :
          (fetchModelsResolve(c, o) /\ o.kind # "payload")
            => /\ lastResult'[calls[c].adapter] =
                    FALLBACK_MODELS(calls[c].adapter)
               /\ calls'[c] = NoCall
               /\ cachedModels' = cachedModels]_vars

\* a refresh has failed while the cache held a list: the call returned the
\* fallback set, for each adapter
C19_Witness ==
  \A a \in PROVIDERS :
    /\ cachedModels[a].kind = "list"
    /\ cachedModels[a] # FALLBACK_MODELS(a)
    /\ fetchCount[a] >= 2
    /\ lastResult[a] = FALLBACK_MODELS(a)

\* C20: no request is initiated for a selection of fewer than 2
\* characters: whenever a port has been opened the stored selection has at
\* least 2 characters, and so has the text of every request message posted,
\* from a popup button, a tab switch or a retry.
C20_NoRequestForShortSelection ==
  \A p \in Ports :
    /\ ports[p].conn # "unused" => currentSelection >= 2
    /\ \A i \in 1..Len(toWorker[p]) : toWorker[p][i].text >= 2

\* a request posted by a tab switch waits on the second port opened
C20_Witness ==
  /\ activeRequestPort = 2
  /\ activeTab \notin {"translation", NoTab}
  /\ toWorker[2] # <<>>
  /\ toWorker[2][1].mode = activeTab
  /\ toWorker[2][1].text = currentSelection

\* the places of a text where a word begins, and the word that begins at i
WordStarts(text) ==
  {i \in 1..Len(text) :
     text[i] \notin Separators /\ (i = 1 \/ text[i - 1] \in Separators)}

WordEnd(text, i) ==
  CHOOSE j \in i..Len(text) :
    /\ \A k \in i..j : text[k] \notin Separators
    /\ j = Len(text) \/ text[j + 1] \in Separators

HasCharOf(text, i, chars) == \E k \in i..WordEnd(text, i) : text[k] \in chars

\* the right-to-left words of a text, and its Latin-script words: the
\* words with a Latin letter that are not right-to-left words
RTLWordsOf(text) == {i \in WordStarts(text) : HasCharOf(text, i, RTLChars)}

LatinWordsOf(text) ==
  {i \in WordStarts(text) \ RTLWordsOf(text) : HasCharOf(text, i, LatinChars)}

RateLimitExample ==
  <<"R", "a", "t", "e", " ", "l", "i", "m", "i", "t", " ", "e", "x", "c",
    "e", "e", "d", "e", "d", ".", " ", "T", "r", "y", " ", "l", "a", "t",
    "e", "r", ".">>

\* "Rate limit exceeded API key"
TwoKeywordsExample ==
  <<"R", "a", "t", "e", " ", "l", "i", "m", "i", "t", " ", "e", "x", "c",
    "e", "e", "d", "e", "d", " ", "A", "P", "I", " ", "k", "e", "y">>

\* the causes the keyword fallback gives
KeywordCauses ==
  {Cause.error, Cause.apiKey, Cause.network, Cause.rateLimit, Cause.timeout,
   Cause.invalid}

\* neither split applies to the trimmed text t
FallsBack(t) ==
  /\ colonMatch(t) = <<>>
  /\ periodMatch(t) = <<>> \/ Len(periodMatch(t)[2]) <= 10

\* C22: on a text parseError splits at the first colon when text stands
\* on both sides of it; else at the first sentence when more than 10
\* characters follow it; else it keeps the whole text as message with a
\* cause from the keyword table.  "Rate limit exceeded. Try later." has a
\* remainder of exactly 10 characters and gets the cause "Rate Limit".
C22_RulePrecedence ==
  (output # <<>> /\ input.kind = "text" /\ trim(input.text) # <<>>) =>
    LET t == trim(input.text)
        c == colonMatch(t)
        s == periodMatch(t)
        r == output[1]
    IN /\ c # <<>> => r = [cause |-> trim(c[1]), message |-> trim(c[2])]
       /\ (c = <<>> /\ s # <<>> /\ Len(s[2]) > 10)
            => r = [cause |-> trim(s[1]), message |-> trim(s[2])]
       /\ FallsBack(t) => r.message = t /\ r.cause \in KeywordCauses
       /\ t = RateLimitExample
            => r = [cause |-> Cause.rateLimit, message |-> RateLimitExample]

\* "Rate limit exceeded. Try later." was classified
C22_Witness ==
  /\ input.kind = "text" /\ input.text = RateLimitExample
  /\ Len(periodMatch(input.text)[2]) = 10
  /\ output = <<[cause |-> Cause.rateLimit, message |-> RateLimitExample]>>

\* content.js:605-616 as a table, in the order of the else-if chain
KeywordTable ==
  <<<<Keyword.apiKey, Cause.apiKey>>, <<Keyword.network, Cause.network>>,
    <<Keyword.connection, Cause.network>>, <<Keyword.rateLimit, Cause.rateLimit>>,
    <<Keyword.timeout, Cause.timeout>>, <<Keyword.invalid, Cause.invalid>>>>

\* the rows of the table whose keyword the text holds, whatever the case
RowsMet(t) ==
  {n \in 1..Len(KeywordTable) : includes(toLowerCase(t), KeywordTable[n][1])}

\* C23: in the keyword fallback the cause is that of the first row of the
\* table, in its fixed order, whose keyword the text holds in any case of
\* letters; "Error" when it holds none.
C23_FirstKeywordWins ==
  (/\ output # <<>> /\ input.kind = "text" /\ trim(input.text) # <<>>
   /\ FallsBack(trim(input.text))) =>
    LET met == RowsMet(trim(input.text))
    IN output[1].cause =
         IF met = {} THEN Cause.error
         ELSE KeywordTable[CHOOSE n \in met : \A m \in met : n <= m][2]

\* a text that names the rate limit before the API key was classified as
\* an API key error
C23_Witness ==
  /\ input.kind = "text" /\ input.text = TwoKeywordsExample
  /\ RowsMet(input.text) = {1, 4}
  /\ output # <<>> /\ output[1].cause = Cause.apiKey

\* the field is a string that holds text
HasText(field) == field.t = "string" /\ trim(field.s) # <<>>

\* C24 as stated: for an object the cause is the cause field if there is
\* one, else the code field if there is one, else "Error"; the message is
\* the message field, else the error field, else the serialized object,
\* else the default message; for no input the result is the default pair.
\* (Refuted by the code: the field is chosen by its type alone, so a cause
\* or message that is a blank string stops the chain and the result is
\* "Error" or the default message although code or error hold text.)
C24_StructuredFields ==
  output # <<>> =>
    /\ input.kind = "absent"
         => output[1] = [cause |-> Cause.unknown,
                         message |-> DefaultErrorMessage]
    /\ input.kind = "object"
         => /\ output[1].cause =
                 IF HasText(input.cause) THEN trim(input.cause.s)
                 ELSE IF HasText(input.code) THEN trim(input.code.s)
                 ELSE Cause.error
            /\ output[1].message =
                 IF HasText(input.message) THEN trim(input.message.s)
                 ELSE IF HasText(input.error) THEN trim(input.error.s)
                 ELSE IF Serialized(input) # <<>> THEN Serialized(input)
                 ELSE DefaultErrorMessage

UserActs ==
  \/ \E len \in SelectionLengths : handleSelection(len)
  \/ \E type \in {"explain", "translate"} : showResponseModal(type)
  \/ hideResponseModal
  \/ \E tabId \in ClickTabs : TabClick(tabId)
  \/ RetryClick

\* C26: nothing is retried by itself.  A port is opened and a request is
\* posted only in a step of the user, one port and one request a step; a
\* run of the handler begins only with a request taken from its port, and
\* enters the adapter's send, hence calls the provider, at most once.
C26_NoAutomaticRetry ==
  [][/\ (PortsUsed' # PortsUsed \/ toWorker' # toWorker)
          => \/ UserActs /\ PortsUsed' = PortsUsed + 1
             \/ \E p \in Ports : OnPortMessage(p)
             \/ ContextInvalidated
     /\ \A p \in Ports :
          /\ Len(toWorker'[p]) > Len(toWorker[p])
               => ports[p].conn = "unused" /\ toWorker'[p] = <<toWorker'[p][1]>>
          /\ (handler'[p].pc = "getSettings" /\ handler[p].pc # "getSettings")
               => handler[p].pc = "idle" /\ OnPortMessage(p)
          /\ (handler'[p].pc = "fetch" /\ handler[p].pc # "fetch")
               => handler[p].pc = "getSettings"
          /\ handler[p].pc \in {"sent", "returned", "rejected", "dead"}
               => handler'[p].pc \in {"sent", "returned", "rejected", "dead"}
                    \ (IF handler[p].pc = "sent" THEN {} ELSE {"sent"})]_vars

\* a request has failed, its error is shown, and all is at rest: the port
\* is closed, the run has returned, nothing is in flight
C26_Witness ==
  /\ container.kind = "error"
  /\ activeRequestPort = NoPort
  /\ PortsUsed = 1
  /\ handler[1].pc = "returned"
  /\ toWorker[1] = <<>> /\ toSurface[1] = <<>>
  /\ contextValid

\* the lines that belong to one template only
TemplateLines ==
  [explain |->
     {"**Selected text to explain:**", "Respond ONLY in",
      "Do not switch languages."},
   translation |->
     {"Translate the following text into",
      "Respond with ONLY the translated text in",
      "No labels, no quotes, no Markdown, no explanations, and no extra sentences."},
   idioms |->
     {"You are coaching a learner to sound natural in",
      "Share 3-5 idiomatic or culturally natural ways to express this idea in",
      "For each, include a short tone tag and one brief example.",
      "Keep everything in", "concise, and easy to study."},
   similar |->
     {"You are helping a learner find interchangeable phrases in",
      "List 4-6 similar phrases or synonyms in",
      "For each item, add a one-line note about nuance, plus a tiny example sentence.",
      "Keep the focus on practical language learning and avoid English."},
   learning |->
     {"Give a quick mini-lesson in", "Provide:",
      "- Key vocabulary with short meanings.",
      "- 1-2 grammar or structure cues.",
      "- One micro practice prompt the learner can answer.",
      "Be concise, encouraging, and stay entirely in"}]

\* the template a request selects
SelectedTemplate(request) ==
  IF request.type = "EXPLAIN_TEXT_STREAM" THEN "explain"
  ELSE IF request.mode \in TabIds THEN request.mode
  ELSE "translation"

\* how often a piece occurs in a message
Occurrences(piece, message) ==
  Cardinality({i \in 1..Len(message) : message[i] = piece})

\* C27: the user message of a request has every line of the template it
\* selects, once, and no line of any other template: explain for an explain
\* request whatever mode it carries, the mode's template for a translate
\* request, translation when the mode is missing, null or unknown.
C27_NoTemplateLeak ==
  output # <<>> =>
    \A t \in DOMAIN TemplateLines : \A line \in TemplateLines[t] :
      Occurrences(line, output[1])
        = (IF t = SelectedTemplate(input) THEN 1 ELSE 0)

\* a translate request with an unknown mode has got the translation
\* directive
C27_Witness ==
  /\ output # <<>>
  /\ input.type = "TRANSLATE_TEXT_STREAM"
  /\ input.mode = UnknownMode
  /\ input.pageTitle # "" /\ input.pageUrl # "" /\ input.contextBefore # ""
  /\ Occurrences("Respond with ONLY the translated text in", output[1]) = 1

\* C28: a request message has a mode exactly when it is a translate
\* request, the mode is one of the four tabs, and at the moment the message
\* is posted, from a popup button, a tab switch or a retry, it is the
\* active tab.
C28_ModeIsActiveTab ==
  /\ [](\A p \in Ports : \A i \in 1..Len(toWorker[p]) :
          LET m == toWorker[p][i] IN
          /\ m.mode # "absent" <=> m.type = "TRANSLATE_TEXT_STREAM"
          /\ m.mode # "absent" => m.mode \in TabIds)
  /\ [][\A p \in Ports :
          Len(toWorker'[p]) > Len(toWorker[p])
            => LET m == toWorker'[p][Len(toWorker'[p])] IN
               /\ m.type = "TRANSLATE_TEXT_STREAM" => m.mode = activeTab'
               /\ m.type = "EXPLAIN_TEXT_STREAM"
                    => m.mode = "absent" /\ activeTab' = NoTab]_vars

\* the translate request of the second port opened, by a retry or for a
\* new selection, waits with the mode of the first tab
C28_Witness ==
  /\ activeRequestPort = 2
  /\ toWorker[2] # <<>>
  /\ toWorker[2][1].type = "TRANSLATE_TEXT_STREAM"
  /\ toWorker[2][1].mode = "translation"
  /\ activeTab = "translation"

\* C29 as stated: every response to GET_MODELS and REFRESH_MODELS, for any
\* provider id, is sent and carries a list of models.
\* (Refuted by the code: an unknown provider is answered with
\* { error: 'Unknown provider' } alone, and for a key inherited from
\* Object.prototype no response is sent.)
C29_ResponseCarriesModels ==
  output # <<>> => output[1].sent /\ output[1].models.kind = "list"

\* the markdown text of two stars, bold, two stars, " and ", and code
\* between two backticks
BoldAndCode ==
  <<"*", "*", "b", "o", "l", "d", "*", "*", " ", "a", "n", "d", " ",
    Backtick, "c", "o", "d", "e", Backtick>>

\* how often the sequence part occurs in html
TimesIn(part, html) ==
  Cardinality({i \in 1..(Len(html) - Len(part) + 1) :
                 SubSeq(html, i, i + Len(part) - 1) = part})

\* C30: the rendering of that markdown text has <strong>bold</strong>
\* once and <code>code</code> once, and neither ** nor a backtick is left.
C30_BoldAndCodeRendered ==
  (output # <<>> /\ input = BoldAndCode) =>
    LET html == output[1] IN
    /\ TimesIn(<<"<strong>", "b", "o", "l", "d", "</strong>">>, html) = 1
    /\ TimesIn(<<"<strong>">>, html) = 1
    /\ TimesIn(<<"<code>", "c", "o", "d", "e", "</code>">>, html) = 1
    /\ TimesIn(<<"<code>">>, html) = 1
    /\ TimesIn(<<"*", "*">>, html) = 0
    /\ TimesIn(<<Backtick>>, html) = 0

\* the text has been rendered, to one paragraph
C30_Witness ==
  /\ input = BoldAndCode
  /\ output = <<(<<"<p>", "<strong>", "b", "o", "l", "d", "</strong>",
                   " ", "a", "n", "d", " ",
                   "<code>", "c", "o", "d", "e", "</code>", "</p>">>)>>

\* a word made of digits only
IsNumeral(word) == \A i \in 1..Len(word) : word[i] \in Digits

\* the words of a list, with a blank after each
RECURSIVE JoinWords(_)
JoinWords(words) ==
  IF words = <<>> THEN <<>>
  ELSE Head(words) \o <<" ">> \o JoinWords(Tail(words))

\* the text without its words of digits
WithoutNumerals(text) ==
  JoinWords(SelectSeq(SplitWords(text, <<>>), LAMBDA w : ~IsNumeral(w)))

\* C31 as stated: words made only of digits, of any script, do not count:
\* a text is classified as the text without them is, and a text of such
\* words only is ltr.
\* (Refuted by the code: rtlPattern matches the digits of the Arabic
\* script, so a word of Arabic-Indic digits counts as a right-to-left
\* word.)
C31_NumeralsIgnored ==
  output # <<>> =>
    /\ output[1] = detectTextDirection(WithoutNumerals(input))
    /\ (\A i \in 1..Len(SplitWords(input, <<>>)) :
          IsNumeral(SplitWords(input, <<>>)[i])) => output[1] = "ltr"

\* the listener of the active port p applies a terminal event
AppliesTerminal(p) ==
  /\ portOnMessage(p)
  /\ p = activeRequestPort /\ modalOverlay # "none"
  /\ IsTerminal(Head(toSurface[p]))

\* C32 as stated: once the surface has applied the terminal event of the
\* active port the container shows the response or the error presentation
\* and no loading indicator, also after a stream of no chunk.
\* (Refuted by the code: the DONE branch of the listener leaves the
\* container alone, so after DONE with no CHUNK before it the loading
\* indicator stays.)
C32_NoLoadingAfterTerminal ==
  [][\A p \in Ports :
       AppliesTerminal(p) => container'.kind \in {"response", "error"}]_vars

\* the CHUNK events among events
ChunksOf(events) == SelectSeq(events, LAMBDA e : e.type = "CHUNK")

\* C33: after a send that returned content, the handler posts that content
\* as one CHUNK followed by DONE when the content is not empty and the
\* callback was never called, and DONE alone, no CHUNK, when the callback
\* was called: content is not delivered a second time.
C33_ContentDeliveredOnce ==
  (output # <<>> /\ input.result = "content") =>
    LET events == output[1] IN
    /\ events[Len(events)] = DoneEvent
    /\ Cardinality(Terminals(events)) = 1
    /\ (~input.hasStreamedContent /\ input.fullContent # NoText)
         => /\ Len(ChunksOf(events)) = 1
            /\ ChunksOf(events)[1].content = input.fullContent
    /\ input.hasStreamedContent => ChunksOf(events) = <<>>

\* a send returned content of two letters without a call of the callback,
\* and the handler has posted it
C33_Witness ==
  /\ output # <<>>
  /\ input.result = "content"
  /\ ~input.hasStreamedContent
  /\ input.fullContent = <<"A", "B">>
  /\ Len(output[1]) = 2

\* C34 as stated: no run of the stream handler ends with an exception that
\* escapes it, also when the surface has closed the port: a post that fails
\* is caught.
\* (Refuted by the code: when the post of DONE or of an error throws on the
\* closed port, the catch posts an error on the same port, which throws
\* again outside any try, and the listener's promise is rejected.)
C34_NoEscapedException ==
  \A p \in Ports : handler[p].pc # "rejected"

\* C35: the API key of the requestParams is the key stored for the
\* provider of the settings, openrouterApiKey for openrouter and
\* geminiApiKey for gemini, in the stream handler and in both one-shot
\* handlers; no other provider gets a key.
C35_KeyOfConfiguredProvider ==
  output # <<>> =>
    LET settings == input.settings IN
    /\ settings.provider = "openrouter"
         => output[1].apiKey = settings.openrouterApiKey
    /\ settings.provider = "gemini"
         => output[1].apiKey = settings.geminiApiKey
    /\ settings.provider \notin PROVIDERS => output[1].apiKey = ""

\* the one-shot explain handler has built a request for gemini while both
\* keys were stored
C35_Witness ==
  /\ output # <<>>
  /\ input.handlerName = "handleExplainRequest"
  /\ input.settings.provider = "gemini"
  /\ input.settings.openrouterApiKey = "sk-or-1"
  /\ output[1].apiKey = "AIza2"

\* C36: the cache of an adapter changes only when a fetch of that adapter
\* has brought a model list, and then for that adapter alone; a fetch that
\* fails, forced or not, leaves both caches as they were, and a call
\* without forceRefresh that finds a cached list returns it.
C36_CacheChangesOnSuccessOnly ==
  [][/\ cachedModels' # cachedModels
          => \E c \in CallIds, o \in ModelFetchOutcomes :
               /\ fetchModelsResolve(c, o)
               /\ o.kind = "payload"
               /\ \A b \in PROVIDERS \ {calls[c].adapter} :
                    cachedModels'[b] = cachedModels[b]
     /\ \A c \in CallIds, o \in ModelFetchOutcomes :
          (fetchModelsResolve(c, o) /\ o.kind # "payload")
            => cachedModels' = cachedModels
     /\ \A c \in CallIds, a \in PROVIDERS, k \in ApiKeys :
          (fetchModels(c, a, k, FALSE) /\ cachedModels[a] # Null)
            => /\ lastResult'[a] = cachedModels[a]
               /\ fetchCount' = fetchCount]_vars

\* every fetch of the Gemini list has failed and left its cache empty,
\* while a forced refresh of the OpenRouter list failed after a list had
\* been cached and a later call has returned that list
C36_Witness ==
  /\ \A c \in CallIds : calls[c] = NoCall
  /\ cachedModels["gemini"] = Null
  /\ fetchCount["gemini"] >= 1
  /\ lastResult["gemini"] = FALLBACK_MODELS("gemini")
  /\ cachedModels["openrouter"].kind = "list"
  /\ cachedModels["openrouter"] # FALLBACK_MODELS("openrouter")
  /\ lastResult["openrouter"] = cachedModels["openrouter"]
  /\ fetchCount["openrouter"] >= 2

\* C37: the disconnect listener of a port that is not the active one
\* leaves activeRequestPort and the container as they are; that of the
\* active port sets activeRequestPort to null, and when a chunk of the port
\* has been applied the container stays as it is, with the response
\* rendered so far, and shows no error.
C37_DisconnectFrame ==
  [][\A p \in Ports :
       portOnDisconnect(p)
         => /\ p # activeRequestPort
                 => /\ activeRequestPort' = activeRequestPort
                    /\ container' = container
            /\ p = activeRequestPort
                 => /\ activeRequestPort' = NoPort
                    /\ ~ports[p].isFirstChunk
                         => /\ container' = container
                            /\ container'.kind # "error"
                            /\ container.kind = "response"
                                 => container'.html =
                                      parseMarkdown(ports[p].fullContent)]_vars

\* the first port was disconnected by the worker after a chunk had been
\* applied: it is no longer the active port and the response is shown
C37_Witness ==
  /\ disc[1] = "fired"
  /\ activeRequestPort = NoPort
  /\ PortsUsed = 1
  /\ ports[1].conn = "open"
  /\ ~ports[1].isFirstChunk
  /\ container.kind = "response"
  /\ container.html # NoText

\* the request the handler builds is a translate request
ForTranslation(call) ==
  \/ call.handlerName = "handleTranslateRequest"
  \/ /\ call.handlerName = "handleStreamRequest"
     /\ call.type = "TRANSLATE_TEXT_STREAM"

\* C38: the system prompt of a translate request is the fixed translator
\* prompt, whatever systemPrompt the settings hold, and that of an explain
\* request is the systemPrompt of the settings read for it.
C38_SystemPromptByKind ==
  output # <<>> =>
    /\ ForTranslation(input)
         => /\ output[1].systemPrompt = TRANSLATOR_SYSTEM_PROMPT
            /\ output[1].systemPrompt # input.settings.systemPrompt
    /\ ~ForTranslation(input)
         => output[1].systemPrompt = input.settings.systemPrompt

\* the stream handler has built a translate request while the settings
\* held a system prompt of the user
C38_Witness ==
  /\ output # <<>>
  /\ input.handlerName = "handleStreamRequest"
  /\ input.type = "TRANSLATE_TEXT_STREAM"
  /\ input.settings.systemPrompt = "Explain briefly"
  /\ output[1].systemPrompt = TRANSLATOR_SYSTEM_PROMPT

\* what a click on a tab other than the active one does to the channels and
\* the display: the channel in flight, if any, is torn down, the display is
\* the loading indicator of the clicked tab, and one channel is opened whose
\* only message is a translate request with the clicked tab as its mode
SwitchesTo(tabId) ==
  /\ activeTab' = tabId
  /\ activeRequestPort # NoPort
       => ports'[activeRequestPort].conn = "closed"
  /\ container' = renderLoading(getLoadingText("translate", tabId))
  /\ PortsUsed' = PortsUsed + 1
  /\ activeRequestPort' = PortsUsed + 1
  /\ ports'[activeRequestPort'].conn = "open"
  /\ Len(toWorker'[activeRequestPort']) = 1
  /\ toWorker'[activeRequestPort'][1].type = "TRANSLATE_TEXT_STREAM"
  /\ toWorker'[activeRequestPort'][1].mode = tabId
  /\ \A q \in Ports \ {activeRequestPort'} : toWorker'[q] = toWorker[q]

\* what a click on the active tab does: nothing
LeavesChannels ==
  /\ activeRequestPort' = activeRequestPort
  /\ ports' = ports
  /\ toWorker' = toWorker
  /\ container' = container
  /\ activeTab' = activeTab

\* C39 as stated: in the translate modal a click on the active tab neither
\* tears down the active channel nor starts a request, and a click on any
\* other tab tears down the channel in flight, shows the loading indicator
\* of the new tab and opens exactly one channel whose mode is the clicked
\* tab.
C39_TabSwitch ==
  [][\A tabId \in ClickTabs :
       TabClick(tabId)
         => /\ tabId = activeTab => LeavesChannels
            /\ tabId # activeTab => SwitchesTo(tabId)]_vars

\* C39 amended: the click on another tab switches the channel as stated
\* while the extension context is valid; once the context is invalidated
\* the click makes the tab active and shows the reload message, the active
\* channel is kept and no channel is opened.
C39_TabSwitchWhileValid ==
  [][\A tabId \in ClickTabs :
       TabClick(tabId)
         => /\ tabId = activeTab => LeavesChannels
            /\ (tabId # activeTab /\ contextValid) => SwitchesTo(tabId)
            /\ (tabId # activeTab /\ ~contextValid)
                 => /\ activeTab' = tabId
                    /\ container' = ReloadMessage
                    /\ activeRequestPort' = activeRequestPort
                    /\ ports' = ports
                    /\ toWorker' = toWorker]_vars

\* a click on the idioms tab has closed the first channel while its request
\* was in flight and opened the second, which carries the idioms request
C39_Witness ==
  /\ contextValid
  /\ modalOverlay = "translate"
  /\ activeTab = "idioms"
  /\ activeRequestPort = 2
  /\ ports[1].conn = "closed"
  /\ ports[2].conn = "open"
  /\ handler[1].pc # "idle"
  /\ container = renderLoading(getLoadingText("translate", "idioms"))
  /\ Len(toWorker[2]) = 1
  /\ toWorker[2][1].mode = "idioms"

====
